---- MODULE Spec2Model ----
(***************************************************************************)
(* Caption-generation pipeline of Postforge (server/src/services/          *)
(* aiGenerator.js and its callers).                                        *)
(*                                                                         *)
(* PlanSpec  - the batch planner of generateInstagramCaptions, run over    *)
(*             small message lists for every ceiling and per-item weight.  *)
(* Spec      - the daily generation job: per organization one              *)
(*             auto-selection run (flatten, plan, per batch build request, *)
(*             invoke with retry, validate, accumulate, stop, cap), then   *)
(*             store and notify.                                           *)
(***************************************************************************)
EXTENDS Integers, Sequences, FiniteSets, TLC

\* ------------------------------------------------------------------ bounds
MaxEmails == 3
MaxImagesPerEmail == 2
MaxCeiling == 3
MaxWeight == 3
MaxShortSelections == 3
MaxSelections == 6
MaxUrlTokens == 4
MaxBodyBytes == 4
MaxFenceTokens == 3
MaxTailTokens == 2
MaxPairBatches == 2
MaxMigrations == 3
MaxInvocations == 3
MaxBulkImages == 2

\* ------------------------------------------------------- program constants
MAX_BATCH_SIZE_MB == 30
ESTIMATED_IMAGE_SIZE_KB == 500

\* ------------------------------------------------------------------ helpers
Min(a, b) == IF a <= b THEN a ELSE b

RECURSIVE SumSeq(_)
SumSeq(s) == IF s = <<>> THEN 0 ELSE Head(s) + SumSeq(Tail(s))

RECURSIVE Concat(_)
Concat(ss) == IF ss = <<>> THEN <<>> ELSE Head(ss) \o Concat(Tail(ss))

\* All sequences over S of length 0..n
SeqsUpTo(S, n) == UNION { [1..k -> S] : k \in 0..n }

\* ------------------------------------------------------------- input data
\* base64 payload lengths used for images: a small one, the largest one
\* whose decoded size does not exceed 5MB, and the smallest one whose
\* decoded size does.
SmallPayload == 4
HugePayload == 6990507
LimitPayload == (5 * 4 * 1024 * 1024) \div 3

\* An image locator as stored in parsed_email_content.image_urls.  key
\* identifies the image: (organization, message number, position).  form is
\* the syntactic form of the URL: "data" (data:<type>;base64,<payload>, of
\* payload length len), "http" (http:// or https://) or "other".  The first
\* image of a message is remote, the third is malformed, the fourth is an
\* oversized inline image, every other one a small inline image.
Locator(org, i, k) ==
  [key |-> <<org, i, k>>,
   form |-> IF k = 1 THEN "http" ELSE IF k = 3 THEN "other" ELSE "data",
   len |-> IF k = 4 THEN HugePayload ELSE SmallPayload]

\* The messages of one organization as fetchEmailsWithImagesForDateRange
\* hands them over, in arrival order; shape[i] is the number of images of
\* the i-th message.
MkEmails(org, shape) ==
  [i \in 1..Len(shape) |->
     [id |-> <<org, i>>,
      imageUrls |-> [k \in 1..shape[i] |-> Locator(org, i, k)]]]

\* ------------------------------------------------------------ batch planner
\* generateInstagramCaptions, lines 75-87: flatten all images with their
\* email context.
ImagesOfEmail(email) ==
  [k \in 1..Len(email.imageUrls) |->
     [imageUrl |-> email.imageUrls[k], emailId |-> email.id]]

RECURSIVE FlattenImages(_)
FlattenImages(emails) ==
  IF emails = <<>> THEN <<>>
  ELSE ImagesOfEmail(Head(emails)) \o FlattenImages(Tail(emails))

\* line 95
maxBatchSizeKB == MAX_BATCH_SIZE_MB * 1024

\* lines 92-94: the planner's locals before the loop
PlanStart == [batches |-> <<>>, currentBatch |-> <<>>, currentBatchSizeKB |-> 0]

\* a close test that looks at the image alone
BatchIsFull_IgnoresRunningSize(st, maxKB, estKB) ==
  estKB > maxKB /\ Len(st.currentBatch) > 0

\* a close test that does not require a non-empty batch
BatchIsFull_ClosesEmptyBatch(st, maxKB, estKB) ==
  st.currentBatchSizeKB + estKB > maxKB

\* a close test that also closes a batch the image would fill exactly
BatchIsFull_AtCeiling(st, maxKB, estKB) ==
  st.currentBatchSizeKB + estKB >= maxKB /\ Len(st.currentBatch) > 0

\* line 98: the current batch is closed before this image is added
BatchIsFull(st, maxKB, estKB) ==
  st.currentBatchSizeKB + estKB > maxKB /\ Len(st.currentBatch) > 0

\* lines 99-101
CloseBatch(st) ==
  [batches |-> Append(st.batches, st.currentBatch),
   currentBatch |-> <<>>,
   currentBatchSizeKB |-> 0]

\* lines 97-106: one iteration of the loop
PlanAddImage(st, image, maxKB, estKB) ==
  LET s1 == IF BatchIsFull(st, maxKB, estKB) THEN CloseBatch(st) ELSE st
  IN  [batches |-> s1.batches,
       currentBatch |-> Append(s1.currentBatch, image),
       currentBatchSizeKB |-> s1.currentBatchSizeKB + estKB]

\* lines 108-110: the last, non-empty batch is pushed
PlanFlush_ForgetsLast(st) == st.batches

\* a planner that pushes the last batch even when it is empty
PlanFlush_PushesEmpty(st) == Append(st.batches, st.currentBatch)

PlanFlush(st) ==
  IF Len(st.currentBatch) > 0 THEN Append(st.batches, st.currentBatch)
  ELSE st.batches

\* ---------------------------------------------------------------- variables
VARIABLES
  \* environment of the generation job
  configured,        \* CLAUDE_API_KEY is set, so the generation client exists
  notificationEmail, \* NOTIFICATION_EMAIL is set
  directory,         \* Organization Directory: organization ids in listing order
  mailbox,           \* Message Repository: organization -> today's messages with images
  entry,             \* what is run: "cron" (daily job, HTTP endpoint) | "schedule" (daily
                     \* job, node-cron) | "generate" (manual request)
                     \* | "call" (generateCombinedPost called on its own)
                     \* | "select" (generateInstagramCaptions called on its own)
  userOrg,           \* manual request: organization of the user, 0 if none;
                     \* direct call: organization whose messages are passed
  selectedImages,    \* the images handed to generateCombinedPost (manual request:
                     \* req.body.selectedImages)
  stored,            \* Post Repository: rows of ai_generated_posts in insertion order
  notified,          \* Notification Sender: summaries delivered
  \* POST /api/cron/generate-daily-posts and POST /api/daily-posts/generate
  pc,                \* position of the handler and of the run it drives
  organizations,     \* result of listOrganizations()
  orgIdx,            \* position of the for-of loop over organizations
  emails,            \* messages handed to generateInstagramCaptions
  captions,          \* value generateInstagramCaptions returned
  results,           \* per-organization results; node-cron job: the outcome line it logs
                     \* for each organization
  httpResponse,      \* what the handler answered; node-cron job: status 0 (no answer) and
                     \* the line it logged when it ended
  \* generateInstagramCaptions
  plMax,             \* maxBatchSizeKB, the ceiling C
  plEst,             \* ESTIMATED_IMAGE_SIZE_KB, the per-item estimate w
  plIdx,             \* number of images the planning loop has consumed
  plState,           \* batches / currentBatch / currentBatchSizeKB
  plPc,              \* planning: "idle" | "flatten" | "loop" | "planned"
  allImages,
  batchIndex,        \* 1-based here
  allPosts,
  \* processBatch
  imageIndex, contentBlocks, i, lastError,
  \* history
  attempts,          \* outcome of each invocation of the model client in the request
  sleeps,            \* backoff sleeps started in the request, in ms
  thrown,            \* the error the request failed with
  fetchLog,          \* images fetched over the network in the run
  processed,         \* organization -> indexes of the batches whose processing began
  failedAt,          \* organization -> batch whose fatal error ended its run
  validated,         \* the answer the step just taken parsed and validated, if any
  resolved,          \* the image the step just taken resolved, and the outcome
  \* imageUrlToBase64 and fetchImageAsBase64, run on their own
  rsUrl,             \* the locator passed to imageUrlToBase64
  rsPc,              \* "off" | "call" | "fetch" | "read" | "returned" | "threw"
  rsNet,             \* the URLs requested over the network
  rsResponse,        \* the response of fetch()
  rsResult,          \* the value returned, or the error thrown
  \* the parsing of the model's text (processBatch lines 443-455,
  \* generateCombinedPost lines 277-287), run on its own
  fsText,            \* messageContent
  fsPc,              \* "off" | "text" | "stripped" | "parsed" | "threw"
  fsJson,            \* jsonString
  fsParsed,          \* parsed
  \* two calls of generateInstagramCaptions under way at once
  runs,              \* call -> its input, the answers it will get, its locals
  \* scripts/migrate.js
  mgFiles,           \* the .sql files of db/migrations (a file is its rank in sort order)
  mgDb,              \* the database: migrations whose SQL is committed, in commit
                     \* order, and the filenames in schema_migrations
  mgTx,              \* the open transaction: SQL run and filenames inserted, uncommitted
  mgPc,              \* "off" | "idle" | "loop" | "begun" | "ran" | "inserted"
  mgExecuted,        \* executedFiles
  mgTodo,            \* the migrationFiles the for-of loop has not reached yet
  mgLog,             \* history: files the invocation committed or failed on, in order
  mgRuns,            \* history: number of invocations begun
  \* DELETE /api/emails/:emailId/images/:index and DELETE /api/emails/images/bulk
  dlContent,         \* parsed_email_content: email -> image_urls
  dlReqs,            \* request -> what was asked, its position, its locals, its answer
  \* POST /api/organizations and POST /api/organizations/join
  jnOrgs,            \* organizations: the ids that exist
  jnProfiles,        \* user_profiles: user -> organization_id and role, or no row
  jnReqs             \* request -> its user, what it asks, its position, its locals, its answer

plVars == <<plMax, plEst, plIdx, plState, plPc>>
resolverVars == <<rsUrl, rsPc, rsNet, rsResponse, rsResult>>
jobEnv == <<configured, notificationEmail, directory, mailbox, entry, userOrg, selectedImages>>
\* what no step of the generation job changes
fenceVars == <<fsText, fsPc, fsJson, fsParsed>>
pairVars == <<runs>>
migrateVars == <<mgFiles, mgDb, mgTx, mgPc, mgExecuted, mgTodo, mgLog, mgRuns>>
\* the scripts and handlers that work on the database alone
deleteVars == <<dlContent, dlReqs>>
joinVars == <<jnOrgs, jnProfiles, jnReqs>>
dbVars == <<migrateVars, deleteVars, joinVars>>
envVars == <<jobEnv, resolverVars, fenceVars, pairVars, dbVars>>
repoVars == <<stored, notified>>
handlerVars == <<organizations, orgIdx, emails, captions, results, httpResponse>>
genVars == <<allImages, batchIndex, allPosts>>
batchVars == <<imageIndex, contentBlocks, i, lastError>>
histVars == <<attempts, sleeps, thrown, fetchLog, processed, failedAt>>

vars == <<plVars, envVars, repoVars, pc, handlerVars, genVars, batchVars, histVars, validated,
          resolved>>

\* generateInstagramCaptions, line 92
batches == plState.batches

\* ------------------------------------------------------ generation: data
OrgIds == {1, 2}

\* Number of images the planner puts in a full batch with the shipped
\* constants; used to build message lists that need several batches.
BatchCapacity == maxBatchSizeKB \div ESTIMATED_IMAGE_SIZE_KB

NoError == [message |-> "none", status |-> 0, attempt |-> 0]

\* An error thrown by anthropic.messages.create on the given attempt of a
\* request; status 0 stands for an error that carries no status.
ApiError(status, attempt) == [message |-> "api", status |-> status, attempt |-> attempt]

ErrorStatuses == {529, 500, 0}

\* processBatch, line 485
ParsingFailed == [message |-> "Claude response parsing failed", status |-> 0, attempt |-> 0]

\* generateInstagramCaptions, line 66
NotConfigured == [message |-> "Claude client not configured", status |-> 0, attempt |-> 0]

\* an error of the Supabase client (emailService, postService,
\* organizationService: `if (error) throw error`)
DbError == [message |-> "db", status |-> 0, attempt |-> 0]

\* ------------------------------------------------- image resolver
\* What imageUrlToBase64 (lines 38-54) can do for a locator: an inline
\* locator is split, a remote one is fetched (fetchImageAsBase64, lines
\* 14-31: the fetch fails, or yields a payload of some length), any other
\* form throws.
ResolveOutcomes(imageUrl) ==
  IF imageUrl.form = "data" THEN { [ok |-> TRUE, len |-> imageUrl.len] }
  ELSE IF imageUrl.form = "http"
    THEN { [ok |-> TRUE, len |-> n] : n \in {SmallPayload, LimitPayload, HugePayload} }
           \cup { [ok |-> FALSE, len |-> 0] }
    ELSE { [ok |-> FALSE, len |-> 0] }

\* a test on the length of the encoded payload
TooLarge_EncodedSize(len) == len > 5 * 1024 * 1024

\* lines 357-361: sizeInMB = len * 0.75 / (1024 * 1024) > 5
TooLarge(len) == 3 * len > 5 * 4 * 1024 * 1024

\* ------------------------------------------------- request builder
\* processBatch, lines 322-338
BatchIntroBlock(batch) == [type |-> "text", text |-> <<"intro", Len(batch)>>]

\* lines 344-350: index is the 0-based imageIndex
BatchContextBlock(index, image) ==
  [type |-> "text", text |-> <<"Image", index + 1, image.emailId>>]

\* lines 366-373
ImageBlock(image, r) == [type |-> "image", text |-> <<"data", image.imageUrl.key, r.len>>]

\* lines 379-382
SeparatorBlock == [type |-> "text", text |-> <<"newline">>]

\* lines 386-401
BatchOutroBlock == [type |-> "text", text |-> <<"respond with selections">>]

\* a loop that pushes nothing for an image it could not use
BatchImageBlocks_SkipsFailed(index, image, r) ==
  IF r.ok /\ ~TooLarge(r.len)
    THEN <<BatchContextBlock(index, image), ImageBlock(image, r), SeparatorBlock>>
    ELSE <<>>

\* lines 341-383: the blocks one loop iteration pushes, given the outcome
\* r of resolving the image
BatchImageBlocks(index, image, r) ==
  <<BatchContextBlock(index, image)>> \o
    (IF r.ok
       THEN IF TooLarge(r.len) THEN <<>>
            ELSE <<ImageBlock(image, r), SeparatorBlock>>
       ELSE <<SeparatorBlock>>)

\* ------------------------------------------------- generation client
\* a retry loop that allows a fourth attempt
retries_Four == 3 + 1

\* line 405
retries == 3

\* a retry test that ignores the status of the failure
BatchShouldRetry_AnyError(error, attempt) == attempt < retries - 1

\* line 429: the failed attempt i (0-based) is followed by another one
BatchShouldRetry(error, attempt) ==
  error.status = 529 /\ attempt < retries - 1

\* a wait computed from the 0-based attempt
BatchWaitTime_FromZero(attempt) == attempt * 2000

\* line 430
BatchWaitTime(attempt) == (attempt + 1) * 2000

\* line 408: the loop goes on to attempt i
BatchLoopContinues(attempt) == attempt < retries

\* ------------------------------------------------- response validator
\* A JSON value found as image_index: a number, a string of digits, the
\* string "length", or anything else (a missing field, null, another
\* string).
IntKey(n) == [kind |-> "int", n |-> n]
DigitsKey(n) == [kind |-> "digits", n |-> n]
LengthKey == [kind |-> "length", n |-> 0]
NoKey == [kind |-> "none", n |-> 0]

\* What the model can answer for a batch: text that does not parse, or a
\* JSON object whose `selections` is missing or is a list of entries.  An
\* entry names the first image, the last image, or the position after the
\* last image of the batch.
IndexChoices(batch) == { IntKey(0), IntKey(Len(batch) - 1), IntKey(Len(batch)) }

\* other values of image_index
OddKeys == { IntKey(-1), IntKey(99), DigitsKey(0), LengthKey, NoKey }

\* an entry that is a JSON object
SelectionEntry(x) == [object |-> TRUE, image_index |-> x, caption |-> "caption"]

\* an entry that is null
NullEntry == [object |-> FALSE, image_index |-> NoKey, caption |-> "none"]

\* every list of up to MaxShortSelections entries
ShortSelections(batch) ==
  SeqsUpTo({ SelectionEntry(x) : x \in IndexChoices(batch) }, MaxShortSelections)

\* longer lists, up to MaxSelections entries, all valid, naming the first
\* and the last image in turn
LongSelections(batch) ==
  { [j \in 1..n |-> SelectionEntry(IntKey(IF j % 2 = 1 THEN 0 ELSE Len(batch) - 1))] :
      n \in (MaxShortSelections + 1)..MaxSelections }

\* lists that hold an entry with another image_index, or a null entry,
\* before or after an entry naming an image
OddSelections(batch) ==
  LET first == SelectionEntry(IntKey(0))
      last == SelectionEntry(IntKey(Len(batch) - 1))
  IN  { <<first, SelectionEntry(k)>> : k \in OddKeys }
        \cup { <<SelectionEntry(k), last>> : k \in OddKeys }
        \cup { <<first, NullEntry>>, <<NullEntry>> }

ModelResponses(batch) ==
  { [parses |-> FALSE, hasSelections |-> FALSE, selections |-> <<>>],
    [parses |-> TRUE, hasSelections |-> FALSE, selections |-> <<>>] }
  \cup { [parses |-> TRUE, hasSelections |-> TRUE, selections |-> sel] :
           sel \in ShortSelections(batch) \cup LongSelections(batch)
                     \cup OddSelections(batch) }

\* what reading a property of a number, or a missing property, gives
NoLocator == [key |-> <<0, 0, 0>>, form |-> "undefined", len |-> 0]
NoImage == [imageUrl |-> NoLocator, emailId |-> <<0, 0>>]

\* line 463: batch[selection.image_index] on the array batch.  An integer
\* or a string of digits inside 0..n-1 gives the image, "length" gives the
\* number n, anything else gives undefined.
BatchLookup(batch, key) ==
  IF key.kind \in {"int", "digits"} /\ key.n \in 0..(Len(batch) - 1)
    THEN [kind |-> "image", image |-> batch[key.n + 1]]
  ELSE IF key.kind = "length"
    THEN [kind |-> "number", image |-> NoImage]
    ELSE [kind |-> "undefined", image |-> NoImage]

\* line 464: `!image` is false, the entry is kept
IndexInBatch(batch, index) ==
  LET image == BatchLookup(batch, index) IN
    \/ image.kind = "image"
    \/ image.kind = "number" /\ Len(batch) # 0

\* lines 463-477
SelectionToPost(batch, selection) ==
  LET image == BatchLookup(batch, selection.image_index).image
      imageUrls == IF image.imageUrl.form # "undefined" THEN <<image.imageUrl>> ELSE <<>>
  IN  [caption_text |-> selection.caption,
       email_id |-> image.emailId,
       source_image_url |-> image.imageUrl,
       source_image_urls |-> imageUrls]

\* lines 462-478: map, then filter(Boolean)
RECURSIVE MapSelections(_, _)
MapSelections(batch, selections) ==
  IF selections = <<>> THEN <<>>
  ELSE (IF IndexInBatch(batch, Head(selections).image_index)
          THEN <<SelectionToPost(batch, Head(selections))>>
          ELSE <<>>)
       \o MapSelections(batch, Tail(selections))

\* line 463: reading image_index of an entry that is null throws inside
\* the try block
SelectionsThrow(resp) ==
  resp.hasSelections /\ \E j \in 1..Len(resp.selections) : ~resp.selections[j].object

\* a catch block that swallows the error, so that no posts are returned
BatchParseFails_Swallowed(resp) == FALSE

\* lines 445-486: something throws inside the try block, and the catch
\* block throws the parsing failure
BatchParseFails(resp) == ~resp.parses \/ SelectionsThrow(resp)

\* lines 455-481, for a response that parsed
ValidateSelections(batch, resp) ==
  IF ~resp.hasSelections \/ Len(resp.selections) = 0 THEN <<>>
  ELSE MapSelections(batch, resp.selections)

\* no answer was validated by the step just taken
NotValidated ==
  [mode |-> "none", batch |-> <<>>, parsed |-> [parses |-> FALSE], threw |-> FALSE,
   posts |-> <<>>]

\* no image was resolved by the step just taken
NotResolved == [mode |-> "none", image |-> NoImage, outcome |-> [ok |-> FALSE, len |-> 0]]

\* ------------------------------------------------- orchestrator policy
\* a threshold of 4 posts instead of 3
EnoughPosts_Four(posts) == Len(posts) >= 4

\* line 126
EnoughPosts(posts) == Len(posts) >= 3

\* a run that returns all it accumulated
CapPosts_NoCap(posts) == posts

\* line 133
CapPosts(posts) == SubSeq(posts, 1, Min(5, Len(posts)))

\* ------------------------------------------------- post repository
\* storeGeneratedPosts, storageService.js lines 410-426
StoreRow(post, organizationId) ==
  LET normalizedUrls ==
        IF post.source_image_urls # <<>>
          THEN SelectSeq(post.source_image_urls, LAMBDA u : u.form # "undefined")
        ELSE IF post.source_image_url.form # "undefined"
          THEN <<post.source_image_url>>
          ELSE <<>>
  IN  [caption_text |-> post.caption_text,
       email_id |-> post.email_id,
       source_image_url |->
         IF Len(normalizedUrls) > 0 THEN normalizedUrls[1] ELSE post.source_image_url,
       source_image_urls |-> normalizedUrls,
       organization_id |-> organizationId,
       is_user_generated |->
         IF "is_user_generated" \in DOMAIN post THEN post.is_user_generated ELSE FALSE]

StoreRows(posts, organizationId) ==
  [j \in 1..Len(posts) |-> StoreRow(posts[j], organizationId)]

\* ------------------------------------------------- initial state
\* no response of fetch(), no value returned
NoResponse == [received |-> FALSE, ok |-> FALSE, contentType |-> "none", bytes |-> 0]
NoResult == [kind |-> "none"]

\* The resolver is not run on its own.
ResolverOff ==
  /\ rsUrl = <<>>
  /\ rsPc = "off"
  /\ rsNet = <<>>
  /\ rsResponse = NoResponse
  /\ rsResult = NoResult

\* The parsing of the model's text is not run on its own.
FenceOff ==
  /\ fsText = <<>>
  /\ fsPc = "off"
  /\ fsJson = <<>>
  /\ fsParsed = "none"

\* No two calls are run side by side.
PairOff == runs = <<>>

\* the migration runner is not run
NoTransaction == [open |-> FALSE, sql |-> <<>>, filenames |-> {}]
MigrateOff ==
  /\ mgFiles = {}
  /\ mgDb = [applied |-> <<>>, schema_migrations |-> {}]
  /\ mgTx = NoTransaction
  /\ mgPc = "off"
  /\ mgExecuted = {}
  /\ mgTodo = <<>>
  /\ mgLog = <<>>
  /\ mgRuns = 0

\* no image is being deleted
DeleteOff ==
  /\ dlContent = <<>>
  /\ dlReqs = <<>>

\* nobody creates or joins an organization
JoinOff ==
  /\ jnOrgs = {}
  /\ jnProfiles = <<>>
  /\ jnReqs = <<>>

DbOff == MigrateOff /\ DeleteOff /\ JoinOff

\* Nothing has run yet.
RunStart ==
  /\ stored = <<>>
  /\ notified = <<>>
  /\ pc = "idle"
  /\ organizations = <<>>
  /\ orgIdx = 0
  /\ captions = <<>>
  /\ results = <<>>
  /\ httpResponse = [status |-> 0]
  /\ plIdx = 0
  /\ plState = PlanStart
  /\ allImages = <<>>
  /\ batchIndex = 0
  /\ allPosts = <<>>
  /\ imageIndex = 0
  /\ contentBlocks = <<>>
  /\ i = 0
  /\ lastError = NoError
  /\ attempts = <<>>
  /\ sleeps = <<>>
  /\ thrown = NoError
  /\ fetchLog = <<>>
  /\ processed = [o \in OrgIds |-> <<>>]
  /\ failedAt = [o \in OrgIds |-> [batch |-> 0, held |-> 0]]
  /\ validated = NotValidated
  /\ resolved = NotResolved

\* Message lists of one organization: none, one message with one image,
\* two messages, and lists that need two and three batches.
SmallShapes == { <<>>, <<1>>, <<2, 1>> }
LargeShapes == { <<BatchCapacity + 1>>, <<BatchCapacity, BatchCapacity, 1>> }

\* Images a user can select: those of two messages of the organization.
SelectablePool == FlattenImages(MkEmails(1, <<4, 2>>))

NoShapes == [o \in OrgIds |-> <<>>]

\* The daily job: no organization, one organization with any of the lists,
\* two organizations with small lists.
CronScenarios ==
  { [entry |-> "cron", directory |-> d.directory, shapes |-> d.shapes,
     userOrg |-> 0, selectedImages |-> <<>>] :
    d \in { [directory |-> <<>>, shapes |-> NoShapes] }
       \cup { [directory |-> <<1>>, shapes |-> [o \in OrgIds |-> IF o = 1 THEN sh ELSE <<>>]] :
                sh \in SmallShapes \cup LargeShapes }
       \cup { [directory |-> <<2, 1>>, shapes |-> [o \in OrgIds |-> IF o = 1 THEN sh1 ELSE sh2]] :
                sh1 \in SmallShapes, sh2 \in SmallShapes \ {<<2, 1>>} } }

\* The manual request: a user without organization; a user who selected
\* no image (auto-selection over today's messages); a user who selected
\* the first n images of the pool.
GenerateScenarios ==
  { [entry |-> "generate", directory |-> <<1>>, shapes |-> NoShapes,
     userOrg |-> 0, selectedImages |-> <<>>] }
  \cup { [entry |-> "generate", directory |-> <<1>>,
          shapes |-> [o \in OrgIds |-> IF o = 1 THEN sh ELSE <<>>],
          userOrg |-> 1, selectedImages |-> <<>>] :
          sh \in SmallShapes \cup LargeShapes }
  \cup { [entry |-> "generate", directory |-> <<1>>, shapes |-> NoShapes,
          userOrg |-> 1, selectedImages |-> SubSeq(SelectablePool, 1, n)] :
          n \in 1..Len(SelectablePool) }

\* generateCombinedPost called on its own with the first n images of the
\* pool, n from 0 to one more than it accepts.
CallScenarios ==
  { [entry |-> "call", directory |-> <<>>, shapes |-> NoShapes,
     userOrg |-> 0, selectedImages |-> SubSeq(SelectablePool, 1, n)] :
     n \in 0..Len(SelectablePool) }

\* generateInstagramCaptions called on its own with the messages of an
\* organization: none, one message with one image, or messages without
\* any image.
SelectScenarios ==
  { [entry |-> "select", directory |-> <<>>,
     shapes |-> [o \in OrgIds |-> IF o = 1 THEN sh ELSE <<>>],
     userOrg |-> 1, selectedImages |-> <<>>] :
     sh \in { <<>>, <<1>>, <<0>>, <<0, 0>> } }

\* The daily job run by node-cron: two organizations, the first with one
\* message with one image, the second with none or one.
ScheduleScenarios ==
  { [entry |-> "schedule", directory |-> <<2, 1>>,
     shapes |-> [o \in OrgIds |-> IF o = 2 THEN <<1>> ELSE sh],
     userOrg |-> 0, selectedImages |-> <<>>] :
     sh \in { <<>>, <<1>> } }

Scenarios ==
  CronScenarios \cup ScheduleScenarios \cup GenerateScenarios \cup CallScenarios
    \cup SelectScenarios

InitOf(scenarios) ==
  /\ configured \in BOOLEAN
  /\ notificationEmail \in BOOLEAN
  /\ \E sc \in scenarios :
       /\ entry = sc.entry
       /\ directory = sc.directory
       /\ mailbox = [o \in OrgIds |-> MkEmails(o, sc.shapes[o])]
       /\ userOrg = sc.userOrg
       /\ selectedImages = sc.selectedImages
  /\ emails = <<>>
  /\ plMax = maxBatchSizeKB
  /\ plEst = ESTIMATED_IMAGE_SIZE_KB
  /\ plPc = "idle"
  /\ RunStart
  /\ ResolverOff
  /\ FenceOff
  /\ PairOff
  /\ DbOff

Init == InitOf(Scenarios)

\* ------------------------------------------------- daily job: handler
\* the daily job, run by the HTTP endpoint or by node-cron
DailyJob == entry \in {"cron", "schedule"}

\* the organization the run under way works for
Org == IF DailyJob THEN organizations[orgIdx] ELSE userOrg

\* The HTTP endpoint answers; the node-cron job, which has nobody to
\* answer, logs a line (organizations.js lines 248, 264, 304, 306).
JobAnswer(answer, line) ==
  IF entry = "cron" THEN answer ELSE [status |-> 0, logged |-> line]

\* part_002 lines 174-185: the loop over organizations is over
CronRespond(allResults) ==
  [status |-> 200, success |-> TRUE, organizations |-> allResults,
   totalCaptions |-> SumSeq([j \in 1..Len(allResults) |-> allResults[j].captionsGenerated])]

\* part_002 lines 96, 172-185, organizations.js lines 271, 302-304: the iteration for the current organization
\* ends with the given result; the loop goes to the next organization or
\* the handler answers.  The locals of the iteration are dropped.
CronEndIteration(result) ==
  /\ results' = Append(results, result)
  /\ emails' = <<>>
  /\ captions' = <<>>
  /\ allImages' = <<>>
  /\ plState' = PlanStart
  /\ plIdx' = 0
  /\ batchIndex' = 0
  /\ allPosts' = <<>>
  /\ IF orgIdx < Len(organizations)
       THEN /\ orgIdx' = orgIdx + 1
            /\ pc' = "fetchEmails"
            /\ UNCHANGED httpResponse
       ELSE /\ orgIdx' = orgIdx
            /\ pc' = "done"
            /\ httpResponse' = JobAnswer(CronRespond(Append(results, result)),
                                         "completed for all organizations")

\* the variables CronEndIteration leaves to its caller
iterRest == <<plMax, plEst, plPc, envVars, repoVars, organizations, batchVars, histVars>>

\* a daily job whose first failing organization ends the whole job, as an
\* error reaching the outer catch would (part_002 lines 186-193)
CronCatch_Aborts(error) ==
  /\ results' = Append(results, [organization |-> Org, success |-> FALSE,
                                 captionsGenerated |-> 0, message |-> error.message])
  /\ emails' = <<>>
  /\ captions' = <<>>
  /\ allImages' = <<>>
  /\ plState' = PlanStart
  /\ plIdx' = 0
  /\ batchIndex' = 0
  /\ allPosts' = <<>>
  /\ orgIdx' = orgIdx
  /\ pc' = "done"
  /\ httpResponse' = JobAnswer([status |-> 500], "Daily post job failed")

\* part_002 lines 164-171, organizations.js lines 298-301: an error thrown
\* inside the iteration
CronCatch(error) ==
  CronEndIteration([organization |-> Org, success |-> FALSE,
                    captionsGenerated |-> 0, message |-> error.message])

\* part_002 lines 157-163
CronSuccess ==
  CronEndIteration([organization |-> Org, success |-> TRUE,
                    captionsGenerated |-> Len(captions), message |-> "stored"])

\* part_002 lines 46-54
CronBegin ==
  /\ pc = "idle"
  /\ plPc = "idle"
  /\ entry = "cron"
  /\ IF ~configured
       THEN /\ httpResponse' = [status |-> 500]
            /\ pc' = "done"
       ELSE /\ pc' = "listOrganizations"
            /\ UNCHANGED httpResponse
  /\ UNCHANGED <<plVars, envVars, repoVars, organizations, orgIdx, emails, captions,
                 results, genVars, batchVars, histVars>>
  /\ validated' = NotValidated
  /\ resolved' = NotResolved

\* organizations.js lines 246-252: scheduleDailyPostJob schedules the job
\* unless the key is missing; the scheduled callback then runs
ScheduleBegin ==
  /\ pc = "idle"
  /\ plPc = "idle"
  /\ entry = "schedule"
  /\ IF ~configured
       THEN /\ httpResponse' = [status |-> 0, logged |-> "disabled: missing CLAUDE_API_KEY"]
            /\ pc' = "done"
       ELSE /\ pc' = "listOrganizations"
            /\ UNCHANGED httpResponse
  /\ UNCHANGED <<plVars, envVars, repoVars, organizations, orgIdx, emails, captions,
                 results, genVars, batchVars, histVars>>
  /\ validated' = NotValidated
  /\ resolved' = NotResolved

\* part_002 lines 79-91 and 186-193, organizations.js lines 261-266 and 305-307
CronListOrganizations ==
  /\ pc = "listOrganizations"
  /\ \/ /\ organizations' = directory
        /\ IF Len(directory) = 0
             THEN /\ httpResponse' = JobAnswer([status |-> 200, success |-> TRUE,
                                                processed |-> 0],
                                               "no organizations found, skipping")
                  /\ pc' = "done"
                  /\ UNCHANGED orgIdx
             ELSE /\ orgIdx' = 1
                  /\ pc' = "fetchEmails"
                  /\ UNCHANGED httpResponse
     \/ /\ httpResponse' = JobAnswer([status |-> 500], "Daily post job failed")
        /\ pc' = "done"
        /\ UNCHANGED <<organizations, orgIdx>>
  /\ UNCHANGED <<plVars, envVars, repoVars, emails, captions, results, genVars,
                 batchVars, histVars>>
  /\ validated' = NotValidated
  /\ resolved' = NotResolved

\* part_002 lines 100-122, organizations.js lines 274-279
CronFetchEmails ==
  /\ pc = "fetchEmails"
  /\ \/ IF Len(mailbox[Org]) = 0
          THEN CronEndIteration([organization |-> Org, success |-> TRUE,
                                 captionsGenerated |-> 0,
                                 message |-> "No emails with images"])
          ELSE /\ emails' = mailbox[Org]
               /\ pc' = "generate"
               /\ UNCHANGED <<orgIdx, captions, results, httpResponse, genVars,
                              plState, plIdx>>
     \/ CronCatch(DbError)
  /\ UNCHANGED iterRest
  /\ validated' = NotValidated
  /\ resolved' = NotResolved

\* ------------------------------------------------- planner steps
\* part_001 lines 75-95
PlanFlatten ==
  /\ plPc = "flatten"
  /\ allImages' = FlattenImages(emails)
  /\ plState' = PlanStart
  /\ plIdx' = 0
  /\ plPc' = "loop"
  /\ UNCHANGED <<plMax, plEst, envVars, repoVars, pc, handlerVars, batchIndex,
                 allPosts, batchVars, histVars>>
  /\ validated' = NotValidated
  /\ resolved' = NotResolved

\* part_001 lines 97-106, one image
PlanIterate ==
  /\ plPc = "loop"
  /\ plIdx < Len(allImages)
  /\ plState' = PlanAddImage(plState, allImages[plIdx + 1], plMax, plEst)
  /\ plIdx' = plIdx + 1
  /\ UNCHANGED <<plMax, plEst, plPc, envVars, repoVars, pc, handlerVars, genVars,
                 batchVars, histVars>>
  /\ validated' = NotValidated
  /\ resolved' = NotResolved

\* part_001 lines 108-110
PlanFinish ==
  /\ plPc = "loop"
  /\ plIdx = Len(allImages)
  /\ plState' = [plState EXCEPT !.batches = PlanFlush(plState)]
  /\ plPc' = "planned"
  /\ UNCHANGED <<plMax, plEst, plIdx, envVars, repoVars, pc, handlerVars, genVars,
                 batchVars, histVars>>
  /\ validated' = NotValidated
  /\ resolved' = NotResolved

\* ------------------------------------------------- frames
\* processBatch or generateCombinedPost returned or threw: its locals are gone
DropBatchLocals ==
  /\ imageIndex' = 0
  /\ contentBlocks' = <<>>
  /\ i' = 0
  /\ lastError' = NoError

\* part_002 lines 124-135, organizations.js lines 286-294: the daily job
\* receives the run's result
CronReceive(posts) ==
  IF Len(posts) = 0
    THEN CronEndIteration([organization |-> Org, success |-> TRUE,
                           captionsGenerated |-> 0,
                           message |-> "No images selected by AI"])
    ELSE /\ captions' = posts
         /\ pc' = "store"
         /\ UNCHANGED <<results, emails, genVars, plState, plIdx, orgIdx, httpResponse>>

\* ------------------------------------------------- manual request: handler
\* part_003 lines 61-63, 70-72, 85-87, 120-123, 134-137, 150-163: the
\* handler answers; the locals of the request are dropped
RouteEnd(answer) ==
  /\ httpResponse' = answer
  /\ pc' = "done"
  /\ emails' = <<>>
  /\ captions' = <<>>
  /\ allImages' = <<>>
  /\ plState' = PlanStart
  /\ plIdx' = 0
  /\ batchIndex' = 0
  /\ allPosts' = <<>>
  /\ UNCHANGED <<results, orgIdx>>

\* part_003 lines 156-164
RouteCatch(error) == RouteEnd([status |-> 500, error |-> error.message])

\* a generation function was called on its own and has thrown: nothing is
\* left of the call
CallEnd ==
  /\ pc' = "done"
  /\ emails' = <<>>
  /\ captions' = <<>>
  /\ allImages' = <<>>
  /\ plState' = PlanStart
  /\ plIdx' = 0
  /\ batchIndex' = 0
  /\ allPosts' = <<>>
  /\ UNCHANGED <<httpResponse, results, orgIdx>>

\* an error thrown by generateInstagramCaptions reaches its caller's catch
CallerCatch(error) ==
  CASE DailyJob -> CronCatch(error)
    [] entry = "generate" -> RouteCatch(error)
    [] OTHER -> CallEnd

\* part_003 line 141
MarkUserGenerated(posts) ==
  [j \in 1..Len(posts) |->
     [caption_text |-> posts[j].caption_text,
      email_id |-> posts[j].email_id,
      source_image_url |-> posts[j].source_image_url,
      source_image_urls |-> posts[j].source_image_urls,
      is_user_generated |-> TRUE]]

\* part_003 lines 128-145: the manual handler receives the run's result
RouteReceive(posts) ==
  IF Len(posts) = 0
    THEN RouteEnd([status |-> 400, error |-> "No suitable images found"])
    ELSE /\ captions' = MarkUserGenerated(posts)
         /\ pc' = "storeUser"
         /\ UNCHANGED <<results, emails, genVars, plState, plIdx, orgIdx, httpResponse>>

\* part_001 line 133: generateInstagramCaptions was called on its own and
\* returns its result
CallReceive(posts) ==
  /\ captions' = posts
  /\ pc' = "done"
  /\ UNCHANGED <<results, emails, genVars, plState, plIdx, orgIdx, httpResponse>>

\* part_003 lines 56-64
RouteBegin ==
  /\ pc = "idle"
  /\ plPc = "idle"
  /\ entry = "generate"
  /\ IF ~configured
       THEN /\ httpResponse' = [status |-> 500, error |-> "Claude API key not configured"]
            /\ pc' = "done"
       ELSE /\ pc' = "getUserOrganization"
            /\ UNCHANGED httpResponse
  /\ UNCHANGED <<plVars, envVars, repoVars, organizations, orgIdx, emails, captions,
                 results, genVars, batchVars, histVars>>
  /\ validated' = NotValidated
  /\ resolved' = NotResolved

\* ------------------------------------------------- combined generation
NoImagesProvided == [message |-> "No images provided", status |-> 0, attempt |-> 0]
TooManyImages == [message |-> "Maximum 5 images can be selected", status |-> 0, attempt |-> 0]
FailedToGenerate == [message |-> "Failed to generate caption", status |-> 0, attempt |-> 0]

\* part_001 lines 159-172
CombinedIntroBlock(images) == [type |-> "text", text |-> <<"intro", Len(images)>>]

\* lines 177-183
CombinedContextBlock(index, image) ==
  [type |-> "text", text |-> <<"Image", index + 1, image.emailId>>]

\* lines 196-199
TooLargeBlock == [type |-> "text", text |-> <<"[Image too large to process]">>]

\* lines 213-216
CouldNotLoadBlock == [type |-> "text", text |-> <<"[Image could not be loaded]">>]

\* lines 226-235
CombinedOutroBlock == [type |-> "text", text |-> <<"respond with caption">>]

\* lines 175-223: the blocks one loop iteration pushes, given the outcome r
\* of resolving the image
CombinedImageBlocks(index, image, r) ==
  <<CombinedContextBlock(index, image)>> \o
    (IF r.ok
       THEN IF TooLarge(r.len) THEN <<TooLargeBlock>>
            ELSE <<ImageBlock(image, r), SeparatorBlock>>
       ELSE <<CouldNotLoadBlock, SeparatorBlock>>)

\* line 239
combinedRetries == 3

\* a retry test that lets the third attempt be retried
CombinedShouldRetry_OneTooMany(error, attempt) ==
  error.status = 529 /\ attempt < combinedRetries

\* line 263
CombinedShouldRetry(error, attempt) ==
  error.status = 529 /\ attempt < combinedRetries - 1

\* line 264
CombinedWaitTime(attempt) == (attempt + 1) * 2000

\* line 242
CombinedLoopContinues(attempt) == attempt < combinedRetries

\* What the model can answer: text that does not parse, or a JSON object
\* whose caption is missing, is the empty string, is a non-empty string, or
\* is another truthy value (a number such as 7, a list, an object).
CombinedResponses ==
  { [parses |-> FALSE, caption |-> "missing"] }
  \cup { [parses |-> TRUE, caption |-> c] : c \in {"missing", "empty", "text", "other"} }

\* lines 277-291 and 308-311: JSON.parse throws, or `!parsed.caption` holds
\* and the code throws itself; the catch block turns both into the failure
CombinedParseFails(resp) ==
  ~resp.parses \/ resp.caption \in {"missing", "empty"}

\* lines 292-296: the locators of the images, those that are missing left
\* out
CombinedImageUrls(images) ==
  SelectSeq([k \in 1..Len(images) |-> images[k].imageUrl],
            LAMBDA u : u.form # "undefined")

\* a post linked to the last image
CombinedPost_LastImage(images, resp) ==
  [caption_text |-> resp.caption,
   email_id |-> images[Len(images)].emailId,
   source_image_url |-> images[Len(images)].imageUrl,
   source_image_urls |-> CombinedImageUrls(images)]

\* lines 292-304; an empty list stands for null
CombinedPost(images, resp) ==
  [caption_text |-> resp.caption,
   email_id |-> images[1].emailId,
   source_image_url |-> images[1].imageUrl,
   source_image_urls |-> CombinedImageUrls(images)]

\* an error thrown by generateCombinedPost reaches its caller
CombinedCatch(error) ==
  IF entry = "generate" THEN RouteCatch(error) ELSE CallEnd

\* a cap of 6 images
CombinedTooMany_Six(images) == Len(images) > 6

\* part_001 line 149
CombinedTooMany(images) == Len(images) > 5

\* part_001 lines 140-172: generateCombinedPost is entered and runs up to
\* its first await
CombinedBegin(images) ==
  IF ~configured
    THEN CombinedCatch(NotConfigured) /\ thrown' = NotConfigured
         /\ UNCHANGED <<batchVars, attempts, sleeps>>
  ELSE IF Len(images) = 0
    THEN CombinedCatch(NoImagesProvided) /\ thrown' = NoImagesProvided
         /\ UNCHANGED <<batchVars, attempts, sleeps>>
  ELSE IF CombinedTooMany(images)
    THEN CombinedCatch(TooManyImages) /\ thrown' = TooManyImages
         /\ UNCHANGED <<batchVars, attempts, sleeps>>
  ELSE /\ pc' = "combinedResolve"
       /\ imageIndex' = 0
       /\ contentBlocks' = <<CombinedIntroBlock(images)>>
       /\ i' = 0
       /\ lastError' = NoError
       /\ attempts' = <<>>
       /\ sleeps' = <<>>
       /\ thrown' = NoError
       /\ UNCHANGED <<httpResponse, emails, captions, allImages, plState, plIdx,
                      batchIndex, allPosts, results, orgIdx>>

\* generateCombinedPost({ images }) is called on its own
CombinedCall ==
  /\ pc = "idle"
  /\ plPc = "idle"
  /\ entry = "call"
  /\ CombinedBegin(selectedImages)
  /\ UNCHANGED <<plMax, plEst, plPc, envVars, repoVars, organizations, fetchLog,
                 processed, failedAt>>
  /\ validated' = NotValidated
  /\ resolved' = NotResolved

\* part_003 lines 66-98 and 116: the user's organization is looked up; with
\* selected images the combined generation starts, without the messages of
\* today are fetched
RouteGetOrganization ==
  /\ pc = "getUserOrganization"
  /\ \/ /\ RouteCatch(DbError)
        /\ UNCHANGED <<batchVars, attempts, sleeps, thrown>>
     \/ /\ userOrg = 0
        /\ RouteEnd([status |-> 403, error |-> "User not assigned to any organization"])
        /\ UNCHANGED <<batchVars, attempts, sleeps, thrown>>
     \/ /\ userOrg # 0
        /\ IF Len(selectedImages) > 5
             THEN /\ RouteEnd([status |-> 400, error |-> "Maximum 5 images can be selected"])
                  /\ UNCHANGED <<batchVars, attempts, sleeps, thrown>>
             ELSE IF Len(selectedImages) > 0
               THEN CombinedBegin(selectedImages)
               ELSE /\ pc' = "fetchUserEmails"
                    /\ UNCHANGED <<httpResponse, emails, captions, allImages, plState,
                                   plIdx, batchIndex, allPosts, results, orgIdx,
                                   batchVars, attempts, sleeps, thrown>>
  /\ UNCHANGED <<plMax, plEst, plPc, envVars, repoVars, organizations, fetchLog,
                 processed, failedAt>>
  /\ validated' = NotValidated
  /\ resolved' = NotResolved

\* part_003 lines 117-131
RouteFetchEmails ==
  /\ pc = "fetchUserEmails"
  /\ \/ IF Len(mailbox[userOrg]) = 0
          THEN RouteEnd([status |-> 400, error |-> "No emails with images found for today"])
          ELSE /\ emails' = mailbox[userOrg]
               /\ pc' = "generate"
               /\ UNCHANGED <<orgIdx, captions, results, httpResponse, genVars,
                              plState, plIdx>>
     \/ RouteCatch(DbError)
  /\ UNCHANGED iterRest
  /\ validated' = NotValidated
  /\ resolved' = NotResolved

\* ------------------------------------------------- auto-selection run
\* part_001 lines 117-121 and 318-338: the loop of generateInstagramCaptions
\* calls processBatch for batch b (1-based here), which runs up to its
\* first await; a new generation request begins
StartBatch(b) ==
  /\ batchIndex' = b
  /\ imageIndex' = 0
  /\ i' = 0
  /\ lastError' = NoError
  /\ attempts' = <<>>
  /\ sleeps' = <<>>
  /\ thrown' = NoError
  /\ processed' = [processed EXCEPT ![Org] = Append(@, b)]
  /\ IF Len(batches[b]) = 0
       THEN /\ contentBlocks' = <<BatchIntroBlock(batches[b]), BatchOutroBlock>>
            /\ pc' = "invoke"
       ELSE /\ contentBlocks' = <<BatchIntroBlock(batches[b])>>
            /\ pc' = "resolve"

\* a function that looks at its input before it looks at its client
GenerateEnter_EmptyFirst(ems) ==
  /\ IF Len(ems) = 0
       THEN /\ thrown' = NoError
            /\ allPosts' = <<>>
            /\ emails' = ems
            /\ pc' = "return"
            /\ UNCHANGED <<plPc, results, captions, allImages, plState, plIdx,
                           batchIndex, orgIdx, httpResponse>>
       ELSE IF ~configured
         THEN /\ CallerCatch(NotConfigured)
              /\ thrown' = NotConfigured
              /\ UNCHANGED plPc
         ELSE /\ thrown' = NoError
              /\ allPosts' = <<>>
              /\ emails' = ems
              /\ pc' = "plan"
              /\ plPc' = "flatten"
              /\ UNCHANGED <<results, captions, allImages, plState, plIdx,
                             batchIndex, orgIdx, httpResponse>>
  /\ attempts' = <<>>
  /\ sleeps' = <<>>
  /\ fetchLog' = <<>>

\* part_001 lines 64-73: generateInstagramCaptions is entered with the
\* messages ems; with messages to look at it goes on to flatten and plan
\* (PlanFlatten, PlanIterate, PlanFinish)
GenerateEnter(ems) ==
  /\ IF ~configured
       THEN /\ CallerCatch(NotConfigured)
            /\ thrown' = NotConfigured
            /\ UNCHANGED plPc
       ELSE /\ thrown' = NoError
            /\ allPosts' = <<>>
            /\ emails' = ems
            /\ IF Len(ems) = 0
                 THEN /\ pc' = "return"
                      /\ UNCHANGED plPc
                 ELSE /\ pc' = "plan"
                      /\ plPc' = "flatten"
            /\ UNCHANGED <<results, captions, allImages, plState, plIdx,
                           batchIndex, orgIdx, httpResponse>>
  /\ attempts' = <<>>
  /\ sleeps' = <<>>
  /\ fetchLog' = <<>>

\* part_002 line 124 and part_003 line 128: a handler calls
\* generateInstagramCaptions with the messages it fetched
GenerateBegin ==
  /\ pc = "generate"
  /\ GenerateEnter(emails)
  /\ UNCHANGED <<plMax, plEst, envVars, repoVars, organizations, batchVars,
                 processed, failedAt>>
  /\ validated' = NotValidated
  /\ resolved' = NotResolved

\* generateInstagramCaptions({ emails }) is called on its own with the
\* messages of an organization
SelectCall ==
  /\ pc = "idle"
  /\ plPc = "idle"
  /\ entry = "select"
  /\ GenerateEnter(mailbox[userOrg])
  /\ UNCHANGED <<plMax, plEst, envVars, repoVars, organizations, batchVars,
                 processed, failedAt>>
  /\ validated' = NotValidated
  /\ resolved' = NotResolved

\* part_001 lines 112-121: planning is over; the loop over the batches
\* starts
GenerateProcessBatches ==
  /\ pc = "plan"
  /\ plPc = "planned"
  /\ plPc' = "idle"
  /\ IF Len(batches) = 0
       THEN /\ pc' = "return"
            /\ UNCHANGED <<batchIndex, batchVars, attempts, sleeps, thrown, processed>>
       ELSE StartBatch(1)
  /\ UNCHANGED <<plMax, plEst, plIdx, plState, envVars, repoVars, handlerVars,
                 allImages, allPosts, fetchLog, failedAt>>
  /\ validated' = NotValidated
  /\ resolved' = NotResolved

\* part_001 lines 341-401: one iteration of processBatch's loop over the
\* images; after the last image the trailing instructions are pushed and
\* the first attempt starts
ProcessBatchResolveImage ==
  /\ pc = "resolve"
  /\ LET batch == batches[batchIndex]
         image == batch[imageIndex + 1]
         last == imageIndex + 1 = Len(batch)
     IN  \E r \in ResolveOutcomes(image.imageUrl) :
           /\ contentBlocks' =
                contentBlocks \o BatchImageBlocks(imageIndex, image, r)
                  \o (IF last THEN <<BatchOutroBlock>> ELSE <<>>)
           /\ fetchLog' = IF image.imageUrl.form = "http"
                            THEN Append(fetchLog, image.imageUrl.key)
                            ELSE fetchLog
           /\ imageIndex' = imageIndex + 1
           /\ resolved' = [mode |-> "selection", image |-> image, outcome |-> r]
           /\ pc' = IF last THEN "invoke" ELSE "resolve"
  /\ UNCHANGED <<plVars, envVars, repoVars, handlerVars, genVars, i, lastError,
                 attempts, sleeps, thrown, processed, failedAt>>
  /\ validated' = NotValidated

\* a loop that also ends when a batch returned no posts
ProcessBatchReturn_StopsOnEmpty(posts, log) ==
  /\ allPosts' = allPosts \o posts
  /\ IF EnoughPosts(allPosts \o posts) \/ batchIndex = Len(batches) \/ posts = <<>>
       THEN /\ pc' = "return"
            /\ DropBatchLocals
            /\ attempts' = log
            /\ UNCHANGED <<batchIndex, sleeps, thrown, processed>>
       ELSE StartBatch(batchIndex + 1)

\* a loop that goes on with the batch after the next one
ProcessBatchReturn_SkipsOne(posts, log) ==
  /\ allPosts' = allPosts \o posts
  /\ IF EnoughPosts(allPosts \o posts) \/ batchIndex + 1 >= Len(batches)
       THEN /\ pc' = "return"
            /\ DropBatchLocals
            /\ attempts' = log
            /\ UNCHANGED <<batchIndex, sleeps, thrown, processed>>
       ELSE StartBatch(batchIndex + 2)

\* part_001 lines 121-130: processBatch returned posts; they are appended
\* and the loop breaks, ends or calls processBatch for the next batch.
\* log is the request's list of attempts.
ProcessBatchReturn(posts, log) ==
  /\ allPosts' = allPosts \o posts
  /\ IF EnoughPosts(allPosts \o posts) \/ batchIndex = Len(batches)
       THEN /\ pc' = "return"
            /\ DropBatchLocals
            /\ attempts' = log
            /\ UNCHANGED <<batchIndex, sleeps, thrown, processed>>
       ELSE StartBatch(batchIndex + 1)

\* a loop that skips the failed batch and goes on with what it holds
ProcessBatchThrow_SkipsBatch(error, log) ==
  /\ failedAt' = [failedAt EXCEPT ![Org] = [batch |-> batchIndex, held |-> Len(allPosts)]]
  /\ ProcessBatchReturn(<<>>, log)
  /\ UNCHANGED <<orgIdx, results, emails, captions, httpResponse, allImages,
                 plState, plIdx>>

\* part_001 lines 434, 440, 485: an error leaves processBatch;
\* generateInstagramCaptions does not catch it, so it reaches the catch of
\* the handler that called.  log is the request's list of attempts.
ProcessBatchThrow(error, log) ==
  /\ thrown' = error
  /\ attempts' = log
  /\ failedAt' = [failedAt EXCEPT ![Org] = [batch |-> batchIndex, held |-> Len(allPosts)]]
  /\ DropBatchLocals
  /\ CallerCatch(error)
  /\ UNCHANGED <<sleeps, processed>>

\* part_001 lines 411-423 and 439-486: the model answers; the answer is
\* parsed and validated
ProcessBatchInvokeOk ==
  /\ pc = "invoke"
  /\ \E resp \in ModelResponses(batches[batchIndex]) :
       LET log == Append(attempts, [ok |-> TRUE, error |-> NoError])
           batch == batches[batchIndex]
       IN  IF ~BatchParseFails(resp)
             THEN /\ ProcessBatchReturn(ValidateSelections(batch, resp), log)
                  /\ validated' = [mode |-> "selection", batch |-> batch, parsed |-> resp,
                                   threw |-> FALSE,
                                   posts |-> ValidateSelections(batch, resp)]
                  /\ UNCHANGED <<failedAt, orgIdx, results, emails, captions,
                                 httpResponse, allImages, plState, plIdx>>
             ELSE /\ ProcessBatchThrow(ParsingFailed, log)
                  /\ validated' = [mode |-> "selection", batch |-> batch, parsed |-> resp,
                                   threw |-> TRUE, posts |-> <<>>]
  /\ UNCHANGED <<plMax, plEst, plPc, envVars, repoVars, organizations, fetchLog>>
  /\ resolved' = NotResolved

\* part_001 lines 424-436: the invocation throws
ProcessBatchInvokeFail ==
  /\ pc = "invoke"
  /\ \E status \in ErrorStatuses :
       LET error == ApiError(status, i + 1)
           log == Append(attempts, [ok |-> FALSE, error |-> error])
       IN  IF BatchShouldRetry(error, i)
             THEN /\ lastError' = error
                  /\ attempts' = log
                  /\ sleeps' = Append(sleeps, BatchWaitTime(i))
                  /\ pc' = "sleep"
                  /\ UNCHANGED <<imageIndex, contentBlocks, i, thrown, failedAt,
                                 processed, orgIdx, results, emails, captions,
                                 httpResponse, genVars, plState, plIdx>>
             ELSE ProcessBatchThrow(error, log)
  /\ UNCHANGED <<plMax, plEst, plPc, envVars, repoVars, organizations, fetchLog>>
  /\ validated' = NotValidated
  /\ resolved' = NotResolved

\* a retry loop whose counter stands still
ProcessBatchBackoffDone_SameAttempt ==
  /\ pc = "sleep"
  /\ pc' = "invoke"
  /\ UNCHANGED <<i, imageIndex, contentBlocks, lastError, attempts, thrown,
                 failedAt, sleeps, processed, orgIdx, results, emails,
                 captions, httpResponse, genVars, plState, plIdx>>
  /\ UNCHANGED <<plMax, plEst, plPc, envVars, repoVars, organizations, fetchLog>>
  /\ validated' = NotValidated
  /\ resolved' = NotResolved

\* a retry that builds the request again, resolving the images of the
\* batch once more
ProcessBatchBackoffDone_Rebuilds ==
  /\ pc = "sleep"
  /\ IF BatchLoopContinues(i + 1)
       THEN /\ i' = i + 1
            /\ imageIndex' = 0
            /\ contentBlocks' = <<BatchIntroBlock(batches[batchIndex])>>
            /\ pc' = "resolve"
            /\ UNCHANGED <<lastError, attempts, thrown,
                           failedAt, sleeps, processed, orgIdx, results, emails,
                           captions, httpResponse, genVars, plState, plIdx>>
       ELSE ProcessBatchThrow(lastError, attempts)
  /\ UNCHANGED <<plMax, plEst, plPc, envVars, repoVars, organizations, fetchLog>>
  /\ validated' = NotValidated
  /\ resolved' = NotResolved

\* part_001 lines 432, 408 and 439-441: the backoff timer fires
ProcessBatchBackoffDone ==
  /\ pc = "sleep"
  /\ IF BatchLoopContinues(i + 1)
       THEN /\ i' = i + 1
            /\ pc' = "invoke"
            /\ UNCHANGED <<imageIndex, contentBlocks, lastError, attempts, thrown,
                           failedAt, sleeps, processed, orgIdx, results, emails,
                           captions, httpResponse, genVars, plState, plIdx>>
       ELSE ProcessBatchThrow(lastError, attempts)
  /\ UNCHANGED <<plMax, plEst, plPc, envVars, repoVars, organizations, fetchLog>>
  /\ validated' = NotValidated
  /\ resolved' = NotResolved

\* part_001 lines 132-133: the run returns its capped result to the
\* handler that called
GenerateReturn ==
  /\ pc = "return"
  /\ CASE DailyJob -> CronReceive(CapPosts(allPosts))
       [] entry = "generate" -> RouteReceive(CapPosts(allPosts))
       [] OTHER -> CallReceive(CapPosts(allPosts))
  /\ attempts' = <<>>
  /\ sleeps' = <<>>
  /\ UNCHANGED <<plMax, plEst, plPc, envVars, repoVars, organizations, batchVars,
                 thrown, fetchLog, processed, failedAt>>
  /\ validated' = NotValidated
  /\ resolved' = NotResolved

\* a handler that goes on to the notification when storing failed
CronStore_NotifiesAnyway ==
  /\ pc = "store"
  /\ \/ /\ stored' = stored \o StoreRows(captions, Org)
        /\ IF entry = "cron" /\ notificationEmail
             THEN /\ pc' = "notify"
                  /\ UNCHANGED <<results, emails, captions, genVars, plState, plIdx,
                                 orgIdx, httpResponse>>
             ELSE CronSuccess
     \/ /\ pc' = "notify"
        /\ UNCHANGED <<stored, results, emails, captions, genVars, plState, plIdx,
                       orgIdx, httpResponse>>
  /\ UNCHANGED <<plMax, plEst, plPc, envVars, notified, organizations, batchVars, histVars>>
  /\ validated' = NotValidated
  /\ resolved' = NotResolved

\* part_002 lines 135-156, organizations.js lines 296-297, with
\* storeGeneratedPosts; only the HTTP endpoint notifies
CronStore ==
  /\ pc = "store"
  /\ \/ /\ stored' = stored \o StoreRows(captions, Org)
        /\ IF entry = "cron" /\ notificationEmail
             THEN /\ pc' = "notify"
                  /\ UNCHANGED <<results, emails, captions, genVars, plState, plIdx,
                                 orgIdx, httpResponse>>
             ELSE CronSuccess
     \/ /\ CronCatch(DbError)
        /\ UNCHANGED stored
  /\ UNCHANGED <<plMax, plEst, plPc, envVars, notified, organizations, batchVars, histVars>>
  /\ validated' = NotValidated
  /\ resolved' = NotResolved

\* a handler that lets the error of the notification reach the catch of
\* the iteration
CronNotify_Propagates ==
  /\ pc = "notify"
  /\ \/ /\ notified' = Append(notified, [organization |-> Org, posts |-> captions])
        /\ CronSuccess
     \/ /\ UNCHANGED notified
        /\ CronCatch(DbError)
  /\ UNCHANGED <<plMax, plEst, plPc, envVars, stored, organizations, batchVars, histVars>>
  /\ validated' = NotValidated
  /\ resolved' = NotResolved

\* part_002 lines 141-163 with sendDailyPostsNotification: the summary is
\* delivered, or sending fails and the catch block logs
CronNotify ==
  /\ pc = "notify"
  /\ \/ notified' = Append(notified, [organization |-> Org, posts |-> captions])
     \/ UNCHANGED notified
  /\ CronSuccess
  /\ UNCHANGED <<plMax, plEst, plPc, envVars, stored, organizations, batchVars, histVars>>
  /\ validated' = NotValidated
  /\ resolved' = NotResolved

\* ------------------------------------------------- combined generation run
\* part_001 lines 175-235: one iteration of generateCombinedPost's loop
\* over the images; after the last image the trailing instructions are
\* pushed and the first attempt starts
CombinedResolveImage ==
  /\ pc = "combinedResolve"
  /\ LET image == selectedImages[imageIndex + 1]
         last == imageIndex + 1 = Len(selectedImages)
     IN  \E r \in ResolveOutcomes(image.imageUrl) :
           /\ contentBlocks' =
                contentBlocks \o CombinedImageBlocks(imageIndex, image, r)
                  \o (IF last THEN <<CombinedOutroBlock>> ELSE <<>>)
           /\ fetchLog' = IF image.imageUrl.form = "http"
                            THEN Append(fetchLog, image.imageUrl.key)
                            ELSE fetchLog
           /\ imageIndex' = imageIndex + 1
           /\ resolved' = [mode |-> "combined", image |-> image, outcome |-> r]
           /\ pc' = IF last THEN "combinedInvoke" ELSE "combinedResolve"
  /\ UNCHANGED <<plVars, envVars, repoVars, handlerVars, genVars, i, lastError,
                 attempts, sleeps, thrown, processed, failedAt>>
  /\ validated' = NotValidated

\* part_001 lines 268, 274, 311 and part_003 lines 156-164: an error leaves
\* generateCombinedPost and reaches its caller, the handler's catch in the
\* manual request.  log is the request's list of attempts.
CombinedThrow(error, log) ==
  /\ thrown' = error
  /\ attempts' = log
  /\ DropBatchLocals
  /\ CombinedCatch(error)
  /\ UNCHANGED sleeps

\* a handler that does not mark the post
CombinedReturn_Unmarked(post) ==
  /\ captions' = <<post>>
  /\ pc' = IF entry = "generate" THEN "storeUser" ELSE "done"

\* part_001 line 307 and part_003 lines 90-97: generateCombinedPost returns
\* the post; the manual handler marks it and goes on to store it
CombinedReturn(post) ==
  IF entry = "generate"
    THEN captions' = MarkUserGenerated(<<post>>) /\ pc' = "storeUser"
    ELSE captions' = <<post>> /\ pc' = "done"

\* part_001 lines 245-257 and 273-313 with part_003 lines 95-97: the model
\* answers; the answer is parsed, the post is built and marked
CombinedInvokeOk ==
  /\ pc = "combinedInvoke"
  /\ \E resp \in CombinedResponses :
       LET log == Append(attempts, [ok |-> TRUE, error |-> NoError]) IN
       IF ~CombinedParseFails(resp)
         THEN /\ CombinedReturn(CombinedPost(selectedImages, resp))
              /\ validated' = [mode |-> "combined", batch |-> selectedImages,
                               parsed |-> resp, threw |-> FALSE,
                               posts |-> <<CombinedPost(selectedImages, resp)>>]
              /\ attempts' = log
              /\ DropBatchLocals
              /\ UNCHANGED <<thrown, sleeps, httpResponse, emails, allImages, plState,
                             plIdx, batchIndex, allPosts, results, orgIdx>>
         ELSE /\ CombinedThrow(FailedToGenerate, log)
              /\ validated' = [mode |-> "combined", batch |-> selectedImages,
                               parsed |-> resp, threw |-> TRUE, posts |-> <<>>]
  /\ UNCHANGED <<plMax, plEst, plPc, envVars, repoVars, organizations, fetchLog,
                 processed, failedAt>>
  /\ resolved' = NotResolved

\* part_001 lines 258-270: the invocation throws
CombinedInvokeFail ==
  /\ pc = "combinedInvoke"
  /\ \E status \in ErrorStatuses :
       LET error == ApiError(status, i + 1)
           log == Append(attempts, [ok |-> FALSE, error |-> error])
       IN  IF CombinedShouldRetry(error, i)
             THEN /\ lastError' = error
                  /\ attempts' = log
                  /\ sleeps' = Append(sleeps, CombinedWaitTime(i))
                  /\ pc' = "combinedSleep"
                  /\ UNCHANGED <<imageIndex, contentBlocks, i, thrown, orgIdx, results,
                                 emails, captions, httpResponse, genVars, plState, plIdx>>
             ELSE CombinedThrow(error, log)
  /\ UNCHANGED <<plMax, plEst, plPc, envVars, repoVars, organizations, fetchLog,
                 processed, failedAt>>
  /\ validated' = NotValidated
  /\ resolved' = NotResolved

\* part_001 lines 266, 242 and 273-275: the backoff timer fires
CombinedBackoffDone ==
  /\ pc = "combinedSleep"
  /\ IF CombinedLoopContinues(i + 1)
       THEN /\ i' = i + 1
            /\ pc' = "combinedInvoke"
            /\ UNCHANGED <<imageIndex, contentBlocks, lastError, attempts, thrown,
                           sleeps, orgIdx, results, emails, captions, httpResponse,
                           genVars, plState, plIdx>>
       ELSE CombinedThrow(lastError, attempts)
  /\ UNCHANGED <<plMax, plEst, plPc, envVars, repoVars, organizations, fetchLog,
                 processed, failedAt>>
  /\ validated' = NotValidated
  /\ resolved' = NotResolved

\* part_003 lines 144-155 with storeGeneratedPosts
RouteStore ==
  /\ pc = "storeUser"
  /\ \/ /\ stored' = stored \o StoreRows(captions, userOrg)
        /\ RouteEnd([status |-> 200, success |-> TRUE, posts |-> Len(captions)])
     \/ /\ RouteCatch(DbError)
        /\ UNCHANGED stored
  /\ UNCHANGED <<plMax, plEst, plPc, envVars, notified, organizations, batchVars, histVars>>
  /\ validated' = NotValidated
  /\ resolved' = NotResolved

Next ==
  \/ CronBegin
  \/ ScheduleBegin
  \/ CronListOrganizations
  \/ CronFetchEmails
  \/ GenerateBegin
  \/ PlanFlatten
  \/ PlanIterate
  \/ PlanFinish
  \/ GenerateProcessBatches
  \/ ProcessBatchResolveImage
  \/ ProcessBatchInvokeOk
  \/ ProcessBatchInvokeFail
  \/ ProcessBatchBackoffDone
  \/ GenerateReturn
  \/ CronStore
  \/ CronNotify
  \/ RouteBegin
  \/ RouteGetOrganization
  \/ RouteFetchEmails
  \/ CombinedCall
  \/ SelectCall
  \/ CombinedResolveImage
  \/ CombinedInvokeOk
  \/ CombinedInvokeFail
  \/ CombinedBackoffDone
  \/ RouteStore

Spec == Init /\ [][Next]_vars


\* ------------------------------------------------- the two runs alone
\* generateInstagramCaptions called on its own with any of the message
\* lists, generateCombinedPost called on its own
RunScenarios ==
  { [entry |-> "select", directory |-> <<>>,
     shapes |-> [o \in OrgIds |-> IF o = 1 THEN sh ELSE <<>>],
     userOrg |-> 1, selectedImages |-> <<>>] :
     sh \in SmallShapes \cup LargeShapes }
  \cup CallScenarios

RunInit == InitOf(RunScenarios)

RunNext ==
  \/ SelectCall
  \/ PlanFlatten
  \/ PlanIterate
  \/ PlanFinish
  \/ GenerateProcessBatches
  \/ ProcessBatchResolveImage
  \/ ProcessBatchInvokeOk
  \/ ProcessBatchInvokeFail
  \/ ProcessBatchBackoffDone
  \/ GenerateReturn
  \/ CombinedCall
  \/ CombinedResolveImage
  \/ CombinedInvokeOk
  \/ CombinedInvokeFail
  \/ CombinedBackoffDone

\* Every image fetch, model invocation and backoff sleep returns or fails
\* in the end, and the code between two of them is straight-line: a step
\* that can be taken is taken.
RunFairSpec == RunInit /\ [][RunNext]_vars /\ WF_vars(RunNext)

\* ------------------------------------------------- image resolver, alone
\* A locator is a string, written here as a sequence of pieces: the
\* prefixes "data:", "http://" and "https://", the marker ";base64,", a
\* semicolon, a line feed and an ordinary character.
UrlTokens == {"data:", "http://", "https://", ";base64,", ";", "nl", "a"}

Urls == SeqsUpTo(UrlTokens, MaxUrlTokens)

\* the piece holds a semicolon
HasSemicolon(tok) == tok \in {";", ";base64,"}

\* position of the first piece that holds a semicolon, 0 if there is none
FirstSemicolon(url) ==
  LET at == { p \in 1..Len(url) : HasSemicolon(url[p]) } IN
    IF at = {} THEN 0 ELSE CHOOSE p \in at : \A q \in at : p <= q

\* part_001 line 40: imageUrl.match(/^data:([^;]+);base64,(.+)$/).  The
\* first group runs up to the first semicolon, which must begin the
\* marker; the second group is what follows, and `.` matches no line feed.
DataUrlMatch(url) ==
  LET p == FirstSemicolon(url) IN
    IF /\ Len(url) > 0
       /\ url[1] = "data:"
       /\ p >= 3
       /\ url[p] = ";base64,"
       /\ p < Len(url)
       /\ \A q \in (p + 1)..Len(url) : url[q] # "nl"
      THEN [matched |-> TRUE,
            mediaType |-> SubSeq(url, 2, p - 1),
            base64Data |-> SubSeq(url, p + 1, Len(url))]
      ELSE [matched |-> FALSE, mediaType |-> <<>>, base64Data |-> <<>>]

\* a test that looks for the prefix anywhere in the locator
StartsWithHttp_Anywhere(url) ==
  \E p \in 1..Len(url) : url[p] \in {"http://", "https://"}

\* line 49: imageUrl.startsWith('http://') || imageUrl.startsWith('https://')
StartsWithHttp(url) == Len(url) > 0 /\ url[1] \in {"http://", "https://"}

\* What fetch() can resolve to: a status that is a success or not, a
\* content-type header that is absent, empty or present, a body of some
\* number of bytes.
FetchResponses ==
  { [received |-> TRUE, ok |-> o, contentType |-> c, bytes |-> n] :
      o \in BOOLEAN, c \in {"none", "", "image/jpeg"}, n \in 0..MaxBodyBytes }

\* lines 21-22: buffer.toString('base64') of n bytes, 4 characters for
\* every 3 bytes begun
ToBase64(n) == [k \in 1..(4 * ((n + 2) \div 3)) |-> "a"]

\* line 25: response.headers.get('content-type') || 'image/png'
ContentTypeOf(response) ==
  IF response.contentType \in {"none", ""} THEN <<"image/png">>
  ELSE <<response.contentType>>

Value(mediaType, base64Data) ==
  [kind |-> "value", mediaType |-> mediaType, base64Data |-> base64Data]

\* lines 17 and 53
FetchFailed == [kind |-> "error", message |-> "Failed to fetch image"]
InvalidFormat == [kind |-> "error", message |-> "Invalid image URL format"]
\* fetch() itself rejected
NetworkError == [kind |-> "error", message |-> "fetch failed"]

\* the variables of the generation job
jobRest == <<plVars, jobEnv, repoVars, pc, handlerVars, genVars, batchVars,
             histVars, validated, resolved>>
resolverRest == <<jobRest, dbVars>>

\* lines 38-54 and 14-15: imageUrlToBase64 runs up to its return, its
\* throw, or the await of fetch()
ImageUrlToBase64 ==
  /\ rsPc = "call"
  /\ LET dataUrlMatch == DataUrlMatch(rsUrl) IN
       IF dataUrlMatch.matched
         THEN /\ rsResult' = Value(dataUrlMatch.mediaType, dataUrlMatch.base64Data)
              /\ rsPc' = "returned"
              /\ UNCHANGED rsNet
       ELSE IF StartsWithHttp(rsUrl)
         THEN /\ rsNet' = Append(rsNet, rsUrl)
              /\ rsPc' = "fetch"
              /\ UNCHANGED rsResult
         ELSE /\ rsResult' = InvalidFormat
              /\ rsPc' = "threw"
              /\ UNCHANGED rsNet
  /\ UNCHANGED <<rsUrl, rsResponse, resolverRest, fenceVars, pairVars>>

\* lines 15-20: fetch() settles; a response that is not ok makes
\* fetchImageAsBase64 throw, another one is read
FetchSettle ==
  /\ rsPc = "fetch"
  /\ \/ /\ rsResult' = NetworkError
        /\ rsPc' = "threw"
        /\ UNCHANGED rsResponse
     \/ \E response \in FetchResponses :
          /\ rsResponse' = response
          /\ IF ~response.ok
               THEN rsResult' = FetchFailed /\ rsPc' = "threw"
               ELSE rsPc' = "read" /\ UNCHANGED rsResult
  /\ UNCHANGED <<rsUrl, rsNet, resolverRest, fenceVars, pairVars>>

\* lines 20-30: the body has arrived
FetchRead ==
  /\ rsPc = "read"
  /\ rsResult' = Value(ContentTypeOf(rsResponse), ToBase64(rsResponse.bytes))
  /\ rsPc' = "returned"
  /\ UNCHANGED <<rsUrl, rsNet, rsResponse, resolverRest, fenceVars, pairVars>>

\* no generation job is run
JobOff ==
  /\ configured = TRUE
  /\ notificationEmail = FALSE
  /\ directory = <<>>
  /\ mailbox = [o \in OrgIds |-> <<>>]
  /\ entry = "cron"
  /\ userOrg = 0
  /\ selectedImages = <<>>
  /\ emails = <<>>
  /\ plMax = maxBatchSizeKB
  /\ plEst = ESTIMATED_IMAGE_SIZE_KB
  /\ plPc = "idle"
  /\ RunStart

\* imageUrlToBase64 is about to be called with some locator
ResolveInit ==
  /\ rsUrl \in Urls
  /\ rsPc = "call"
  /\ rsNet = <<>>
  /\ rsResponse = NoResponse
  /\ rsResult = NoResult
  /\ FenceOff
  /\ PairOff
  /\ DbOff
  /\ JobOff

ResolveNext == ImageUrlToBase64 \/ FetchSettle \/ FetchRead

ResolveSpec == ResolveInit /\ [][ResolveNext]_vars

\* ------------------------------------------------- parsing the model's text
\* The text of the model is a string, written here as a sequence of
\* pieces: the fence of three backquotes, the words json and JSON, a line
\* feed, a space, a
\* complete JSON document "{a}" and a character "x" that belongs to no
\* JSON document.
Whitespace == {"nl", "sp"}
OpeningTokens == {"fence", "json", "JSON", "nl", "sp"}
ClosingTokens == {"fence", "nl", "sp"}
Bodies == { <<>>, <<"{a}">>, <<"x">>, <<"{a}", "x">>, <<"{a}", "nl", "{a}">> }

\* What the model can answer: up to MaxFenceTokens pieces of an opening
\* fence line, a body, up to MaxTailTokens pieces of a closing fence line.
Texts ==
  { open \o body \o close :
      open \in SeqsUpTo(OpeningTokens, MaxFenceTokens),
      body \in Bodies,
      close \in SeqsUpTo(ClosingTokens, MaxTailTokens) }

\* String.prototype.trim
RECURSIVE TrimStart(_)
TrimStart(str) ==
  IF str # <<>> /\ Head(str) \in Whitespace THEN TrimStart(Tail(str)) ELSE str

RECURSIVE TrimEnd(_)
TrimEnd(str) ==
  IF str # <<>> /\ str[Len(str)] \in Whitespace
    THEN TrimEnd(SubSeq(str, 1, Len(str) - 1))
    ELSE str

Trim(str) == TrimEnd(TrimStart(str))

\* jsonString.startsWith(fence)
StartsWithFence(str) == str # <<>> /\ Head(str) = "fence"

\* jsonString.replace(/^fence(?:json|JSON)?\n?/, '')
StripOpeningFence(str) ==
  IF ~StartsWithFence(str) THEN str
  ELSE LET s1 == Tail(str)
           s2 == IF s1 # <<>> /\ Head(s1) \in {"json", "JSON"} THEN Tail(s1) ELSE s1
       IN  IF s2 # <<>> /\ Head(s2) = "nl" THEN Tail(s2) ELSE s2

\* a replacement that leaves the closing fence in place
StripClosingFence_Keeps(str) == str

\* jsonString.replace(/\n?fence$/, '')
StripClosingFence(str) ==
  IF str = <<>> \/ str[Len(str)] # "fence" THEN str
  ELSE LET s1 == SubSeq(str, 1, Len(str) - 1) IN
         IF s1 # <<>> /\ s1[Len(s1)] = "nl" THEN SubSeq(s1, 1, Len(s1) - 1) ELSE s1

\* part_001 lines 447-453 and 281-285
StripFences(messageContent) ==
  LET jsonString == Trim(messageContent) IN
    IF StartsWithFence(jsonString)
      THEN StripClosingFence(StripOpeningFence(jsonString))
      ELSE jsonString

\* JSON.parse: white space around one document is skipped; anything else
\* is a syntax error
JsonParse(str) ==
  LET doc == Trim(str) IN
    IF doc = <<"{a}">> THEN [ok |-> TRUE, value |-> "a"]
    ELSE [ok |-> FALSE, value |-> "none"]

\* lines 447-453 (281-285): the text is trimmed and its fences are removed
FenceStrip ==
  /\ fsPc = "text"
  /\ fsJson' = StripFences(fsText)
  /\ fsPc' = "stripped"
  /\ UNCHANGED <<fsText, fsParsed, resolverRest, resolverVars, pairVars>>

\* line 455 (287): JSON.parse returns, or throws into the catch block
FenceParse ==
  /\ fsPc = "stripped"
  /\ LET parsed == JsonParse(fsJson) IN
       IF parsed.ok
         THEN fsParsed' = parsed.value /\ fsPc' = "parsed"
         ELSE fsParsed' = "none" /\ fsPc' = "threw"
  /\ UNCHANGED <<fsText, fsJson, resolverRest, resolverVars, pairVars>>

\* the model's text has arrived
FenceInit ==
  /\ fsText \in Texts
  /\ fsPc = "text"
  /\ fsJson = <<>>
  /\ fsParsed = "none"
  /\ ResolverOff
  /\ PairOff
  /\ DbOff
  /\ JobOff

FenceNext == FenceStrip \/ FenceParse

FenceSpec == FenceInit /\ [][FenceNext]_vars

\* ------------------------------------------------- two calls at once
\* Two calls of generateInstagramCaptions (two requests, or the daily job
\* and a request) are under way in the same process.  Each call has its
\* own allImages, batches, allPosts, contentBlocks and loop counters,
\* declared inside the functions (part_001 lines 76, 92-94, 115, 320, 403,
\* 405); the module holds only the client and constants (lines 4-7, 57-58).
RunIds == {1, 2}

\* one attempt of a request, as the model client will settle it
Answer(n) == [kind |-> "answer", n |-> n, status |-> 0]
Overloaded == [kind |-> "error", n |-> 0, status |-> 529]
Refused == [kind |-> "error", n |-> 0, status |-> 500]

\* What the attempts of the request for one batch will be.
BatchScripts ==
  { <<Answer(0)>>, <<Answer(2)>>, <<Refused>>, <<Overloaded, Answer(3)>>,
    <<Overloaded, Overloaded, Overloaded>> }
ShortScripts == { <<Answer(2)>>, <<Refused>> }

\* A call: the number of images of each of its batches, and the attempts
\* of each batch.
PairConfigs(scripts) ==
  UNION { { [sizes |-> [b \in 1..n |-> IF b = 1 THEN 2 ELSE 1], script |-> sc] :
              sc \in [1..n -> scripts] } : n \in 1..MaxPairBatches }

\* the posts the answer with n selections for batch b of call r yields
PairPosts(r, b, n) == [k \in 1..n |-> <<r, b, k>>]

\* the locals of a call that has not begun
NewRun(cfg) ==
  [sizes |-> cfg.sizes, script |-> cfg.script, pc |-> "start",
   batchIndex |-> 0, imageIndex |-> 0, i |-> 0, allPosts |-> <<>>,
   result |-> [ok |-> FALSE, posts |-> <<>>], overlapped |-> FALSE]

\* an accumulator that is one variable of the module
PairAccumulator_Shared(r) == 1

\* line 115: `const allPosts = []` is a local of the call
PairAccumulator(r) == r

\* the other call is suspended in the middle of its run
OtherUnderWay(r) == \E q \in RunIds \ {r} : runs[q].pc \notin {"start", "done"}

\* call r takes a step that changes its locals to next and appends posts
\* to the accumulator it uses; reset empties the accumulator first
PairStep(r, next, posts, reset) ==
  runs' =
    [q \in RunIds |->
       LET base == IF q = r THEN [next EXCEPT !.overlapped = @ \/ OtherUnderWay(r)]
                            ELSE runs[q]
       IN  IF q = PairAccumulator(r)
             THEN [base EXCEPT !.allPosts =
                     (IF reset THEN <<>> ELSE runs[q].allPosts) \o posts]
             ELSE base]

\* the accumulator call r reads
PairAllPosts(r) == runs[PairAccumulator(r)].allPosts

\* lines 64-121 and 318-353: the call begins, plans and runs up to the
\* resolution of the first image of its first batch
PairBegin(r) ==
  /\ runs[r].pc = "start"
  /\ PairStep(r, [runs[r] EXCEPT !.pc = "resolve", !.batchIndex = 1,
                                 !.imageIndex = 0, !.i = 0],
              <<>>, TRUE)

\* lines 341-411: the resolution of an image has settled
PairResolve(r) ==
  /\ runs[r].pc = "resolve"
  /\ LET last == runs[r].imageIndex + 1 = runs[r].sizes[runs[r].batchIndex] IN
       PairStep(r, [runs[r] EXCEPT !.imageIndex = @ + 1,
                                   !.pc = IF last THEN "invoke" ELSE "resolve"],
                <<>>, FALSE)

\* lines 132-133 and the caller: the call returns or throws
PairFinish(run, ok, posts) ==
  [run EXCEPT !.pc = "done", !.result = [ok |-> ok, posts |-> posts]]

\* lines 411-486 and 121-133: the attempt has settled as the script says
PairInvoke(r) ==
  /\ runs[r].pc = "invoke"
  /\ LET run == runs[r]
         outcome == run.script[run.batchIndex][run.i + 1]
         posts == PairPosts(r, run.batchIndex, outcome.n)
         held == PairAllPosts(r) \o posts
     IN  IF outcome.kind = "answer"
           THEN IF EnoughPosts(held) \/ run.batchIndex = Len(run.sizes)
                  THEN PairStep(r, PairFinish(run, TRUE, CapPosts(held)), posts, FALSE)
                  ELSE PairStep(r, [run EXCEPT !.pc = "resolve", !.batchIndex = @ + 1,
                                               !.imageIndex = 0, !.i = 0],
                                posts, FALSE)
         ELSE IF BatchShouldRetry(ApiError(outcome.status, run.i + 1), run.i)
           THEN PairStep(r, [run EXCEPT !.pc = "sleep"], <<>>, FALSE)
           ELSE PairStep(r, PairFinish(run, FALSE, <<>>), <<>>, FALSE)

\* lines 430-432 and 408: the backoff timer has fired
PairWake(r) ==
  /\ runs[r].pc = "sleep"
  /\ IF BatchLoopContinues(runs[r].i + 1)
       THEN PairStep(r, [runs[r] EXCEPT !.pc = "invoke", !.i = @ + 1], <<>>, FALSE)
       ELSE PairStep(r, PairFinish(runs[r], FALSE, <<>>), <<>>, FALSE)

PairRest == <<resolverRest, resolverVars, fenceVars>>

PairBeginStep == \E r \in RunIds : PairBegin(r) /\ UNCHANGED PairRest
PairResolveStep == \E r \in RunIds : PairResolve(r) /\ UNCHANGED PairRest
PairInvokeStep == \E r \in RunIds : PairInvoke(r) /\ UNCHANGED PairRest
PairWakeStep == \E r \in RunIds : PairWake(r) /\ UNCHANGED PairRest

\* two calls are about to be made
PairInit ==
  /\ \E c1 \in PairConfigs(BatchScripts), c2 \in PairConfigs(ShortScripts) :
       runs = [r \in RunIds |-> NewRun(IF r = 1 THEN c1 ELSE c2)]
  /\ ResolverOff
  /\ FenceOff
  /\ DbOff
  /\ JobOff

PairNext == PairBeginStep \/ PairResolveStep \/ PairInvokeStep \/ PairWakeStep

PairSpec == PairInit /\ [][PairNext]_vars

\* ------------------------------------------------- scripts/migrate.js
\* the migration files that can exist, by rank in the order of sort()
MigrationFiles == 1..MaxMigrations

\* line 52: Array.prototype.sort() on the filenames
RECURSIVE SortFiles(_)
SortFiles(files) ==
  IF files = {} THEN <<>>
  ELSE LET first == CHOOSE f \in files : \A g \in files : f <= g
       IN  <<first>> \o SortFiles(files \ {first})

\* lines 54-57: the files of the list, from the first one on, that the
\* loop skips because executedFiles has them
RECURSIVE SkipExecuted(_, _)
SkipExecuted(todo, executedFiles) ==
  IF todo # <<>> /\ Head(todo) \in executedFiles
    THEN SkipExecuted(Tail(todo), executedFiles)
    ELSE todo

\* line 67: commit makes the work of the transaction part of the database
Commit(db, tx) ==
  [applied |-> db.applied \o tx.sql,
   schema_migrations |-> db.schema_migrations \cup tx.filenames]

\* a catch block that commits what the transaction did so far
Rollback_Commits(db, tx) == Commit(db, tx)

\* line 70: rollback drops the work of the transaction
Rollback(db, tx) == db

\* what the steps of the runner leave alone
migrateRest == <<jobRest, resolverVars, fenceVars, pairVars, deleteVars, joinVars>>

\* a developer adds a migration file between two invocations
MigrateAddFile ==
  /\ mgPc = "idle"
  /\ \E f \in MigrationFiles \ mgFiles : mgFiles' = mgFiles \cup {f}
  /\ UNCHANGED <<mgDb, mgTx, mgPc, mgExecuted, mgTodo, mgLog, mgRuns, migrateRest>>

\* lines 28-52 and 77-85: `npm run migrate` connects, creates
\* schema_migrations if needed, reads the executed filenames and lists the
\* files; or one of the queries fails and the process exits
MigrateStart ==
  /\ mgPc = "idle"
  /\ mgRuns < MaxInvocations
  /\ mgRuns' = mgRuns + 1
  /\ mgLog' = <<>>
  /\ \/ /\ mgExecuted' = mgDb.schema_migrations
        /\ mgTodo' = SortFiles(mgFiles)
        /\ mgPc' = "loop"
     \/ /\ mgPc' = "idle"
        /\ UNCHANGED <<mgExecuted, mgTodo>>
  /\ UNCHANGED <<mgFiles, mgDb, mgTx, migrateRest>>

\* lines 54-63 and 76-79: the loop skips the executed files and begins a
\* transaction for the next file (or `begin` fails and the process exits);
\* past the last file the runner ends
MigrateNextFile ==
  /\ mgPc = "loop"
  /\ LET todo == SkipExecuted(mgTodo, mgExecuted) IN
       /\ mgTodo' = todo
       /\ IF todo = <<>>
            THEN /\ mgPc' = "idle"
                 /\ UNCHANGED mgTx
            ELSE \/ /\ mgTx' = [open |-> TRUE, sql |-> <<>>, filenames |-> {}]
                    /\ mgPc' = "begun"
                 \/ /\ mgPc' = "idle"
                    /\ UNCHANGED mgTx
  /\ UNCHANGED <<mgFiles, mgDb, mgExecuted, mgLog, mgRuns, migrateRest>>

\* lines 69-73: the catch block rolls back and exits the process
MigrateCatch ==
  /\ mgDb' = Rollback(mgDb, mgTx)
  /\ mgTx' = NoTransaction
  /\ mgLog' = Append(mgLog, [file |-> Head(mgTodo), outcome |-> "failed"])
  /\ mgPc' = "idle"
  /\ UNCHANGED mgTodo

\* line 65: the SQL of the file runs inside the transaction, or fails
MigrateRunSql ==
  /\ mgPc = "begun"
  /\ \/ /\ mgTx' = [mgTx EXCEPT !.sql = Append(@, Head(mgTodo))]
        /\ mgPc' = "ran"
        /\ UNCHANGED <<mgDb, mgTodo, mgLog>>
     \/ MigrateCatch
  /\ UNCHANGED <<mgFiles, mgExecuted, mgRuns, migrateRest>>

\* line 66 with the unique constraint of line 42
MigrateInsert ==
  /\ mgPc = "ran"
  /\ \/ /\ Head(mgTodo) \notin mgDb.schema_migrations
        /\ mgTx' = [mgTx EXCEPT !.filenames = @ \cup {Head(mgTodo)}]
        /\ mgPc' = "inserted"
        /\ UNCHANGED <<mgDb, mgTodo, mgLog>>
     \/ MigrateCatch
  /\ UNCHANGED <<mgFiles, mgExecuted, mgRuns, migrateRest>>

\* lines 67-68 and 54
MigrateCommit ==
  /\ mgPc = "inserted"
  /\ \/ /\ mgDb' = Commit(mgDb, mgTx)
        /\ mgTx' = NoTransaction
        /\ mgLog' = Append(mgLog, [file |-> Head(mgTodo), outcome |-> "committed"])
        /\ mgTodo' = Tail(mgTodo)
        /\ mgPc' = "loop"
     \/ MigrateCatch
  /\ UNCHANGED <<mgFiles, mgExecuted, mgRuns, migrateRest>>

\* the runner is about to be run for the first time on an empty database,
\* with some migration files
MigrateInit ==
  /\ mgFiles \in SUBSET MigrationFiles
  /\ mgDb = [applied |-> <<>>, schema_migrations |-> {}]
  /\ mgTx = NoTransaction
  /\ mgPc = "idle"
  /\ mgExecuted = {}
  /\ mgTodo = <<>>
  /\ mgLog = <<>>
  /\ mgRuns = 0
  /\ DeleteOff
  /\ JoinOff
  /\ ResolverOff
  /\ FenceOff
  /\ PairOff
  /\ JobOff

MigrateNext ==
  \/ MigrateAddFile
  \/ MigrateStart
  \/ MigrateNextFile
  \/ MigrateRunSql
  \/ MigrateInsert
  \/ MigrateCommit

MigrateSpec == MigrateInit /\ [][MigrateNext]_vars

\* ------------------------------------------------- image delete handlers
\* Two emails: the first belongs to the caller's organization and holds
\* three images, the second belongs to another organization.
EmailIds == {1, 2}
CallerOrganization == 1
OrganizationOf(emailId) == emailId
StoredUrls == [e \in EmailIds |-> IF e = 1 THEN <<"a", "b", "c">> ELSE <<"d", "e">>]

\* What a request can name: an image of the first email by an index
\* inside or outside its list, and the first image of the foreign email.
ImageRefs ==
  { [emailId |-> 1, index |-> n] : n \in -1..3 } \cup { [emailId |-> 2, index |-> 0] }

DeleteRequestIds == {1, 2}

\* part_002 lines 377-383: images.reduce groups the indices by emailId,
\* in order of first appearance
RECURSIVE GroupByEmail(_, _)
GroupByEmail(acc, images) ==
  IF images = <<>> THEN acc
  ELSE LET img == Head(images)
           at == { g \in 1..Len(acc) : acc[g].emailId = img.emailId }
       IN  IF at = {}
             THEN GroupByEmail(Append(acc, [emailId |-> img.emailId,
                                            indices |-> <<img.index>>]),
                               Tail(images))
             ELSE GroupByEmail([g \in 1..Len(acc) |->
                                  IF g \in at
                                    THEN [acc[g] EXCEPT !.indices = Append(@, img.index)]
                                    ELSE acc[g]],
                               Tail(images))

\* line 422: indices.sort((a, b) => b - a); equal indices stay
RECURSIVE SortDescending(_)
SortDescending(indices) ==
  IF indices = <<>> THEN <<>>
  ELSE LET top == CHOOSE n \in 1..Len(indices) :
                    \A m \in 1..Len(indices) :
                      indices[m] < indices[n] \/ (indices[m] = indices[n] /\ n <= m)
       IN  <<indices[top]>>
             \o SortDescending([m \in 1..(Len(indices) - 1) |->
                                  IF m < top THEN indices[m] ELSE indices[m + 1]])

\* newUrls.splice(index, 1), index 0-based and inside the list
Splice(urls, index) ==
  [n \in 1..(Len(urls) - 1) |-> IF n <= index THEN urls[n] ELSE urls[n + 1]]

\* lines 425-430: each index inside the list as it is now removes one
\* entry and counts
RECURSIVE RemoveEach(_, _, _)
RemoveEach(urls, sortedIndices, count) ==
  IF sortedIndices = <<>> THEN [newUrls |-> urls, deletedCount |-> count]
  ELSE LET index == Head(sortedIndices) IN
         IF index >= 0 /\ index < Len(urls)
           THEN RemoveEach(Splice(urls, index), Tail(sortedIndices), count + 1)
           ELSE RemoveEach(urls, Tail(sortedIndices), count)

NoRequest ==
  [kind |-> "none", images |-> <<>>, pc |-> "done", groups |-> <<>>,
   newUrls |-> <<>>, deletedCount |-> 0, status |-> 0]

NewRequest(kind, images) ==
  [kind |-> kind, images |-> images, pc |-> "start", groups |-> <<>>,
   newUrls |-> <<>>, deletedCount |-> 0, status |-> 0]

\* what the steps of the delete handlers leave alone
deleteRest == <<jobRest, resolverVars, fenceVars, pairVars, migrateVars, joinVars>>

Answer500(req) == [req EXCEPT !.pc = "done", !.status = 500]

\* part_002 lines 354-385: the bulk handler checks the body and groups the
\* images
BulkBegin(r) ==
  /\ dlReqs[r].kind = "bulk"
  /\ dlReqs[r].pc = "start"
  /\ LET req == dlReqs[r] IN
       dlReqs' = [dlReqs EXCEPT ![r] =
         IF Len(req.images) = 0
           THEN [req EXCEPT !.pc = "done", !.status = 400]
           ELSE [req EXCEPT !.pc = "email", !.groups = GroupByEmail(<<>>, req.images)]]
  /\ UNCHANGED <<dlContent, deleteRest>>

\* lines 389-432 and 447-453: the next email of the grouping is verified
\* and its image_urls are read; an email of another organization is
\* skipped; after the last email the handler answers
BulkRead(r) ==
  /\ dlReqs[r].kind = "bulk"
  /\ dlReqs[r].pc = "email"
  /\ LET req == dlReqs[r] IN
       dlReqs' = [dlReqs EXCEPT ![r] =
         IF req.groups = <<>>
           THEN [req EXCEPT !.pc = "done", !.status = 200]
         ELSE IF OrganizationOf(Head(req.groups).emailId) # CallerOrganization
           THEN [req EXCEPT !.groups = Tail(req.groups)]
         ELSE LET removed == RemoveEach(dlContent[Head(req.groups).emailId],
                                        SortDescending(Head(req.groups).indices),
                                        req.deletedCount)
              IN  [req EXCEPT !.pc = "update",
                              !.newUrls = removed.newUrls,
                              !.deletedCount = removed.deletedCount]]
  /\ UNCHANGED <<dlContent, deleteRest>>

\* lines 434-444: image_urls is overwritten with newUrls, or the update
\* fails and the handler answers 500
BulkUpdate(r) ==
  /\ dlReqs[r].kind = "bulk"
  /\ dlReqs[r].pc = "update"
  /\ LET req == dlReqs[r] IN
       \/ /\ dlContent' = [dlContent EXCEPT ![Head(req.groups).emailId] = req.newUrls]
          /\ dlReqs' = [dlReqs EXCEPT ![r] =
               [req EXCEPT !.pc = "email", !.groups = Tail(req.groups), !.newUrls = <<>>]]
       \/ /\ dlReqs' = [dlReqs EXCEPT ![r] = Answer500(req)]
          /\ UNCHANGED dlContent
  /\ UNCHANGED deleteRest

\* lines 285-328 and 343: the single handler verifies the email, reads its
\* image_urls and removes the image when the index is inside the list
SingleRead(r) ==
  /\ dlReqs[r].kind = "single"
  /\ dlReqs[r].pc = "start"
  /\ LET req == dlReqs[r]
         img == req.images[1]
         currentUrls == dlContent[img.emailId]
     IN  dlReqs' = [dlReqs EXCEPT ![r] =
           IF OrganizationOf(img.emailId) # CallerOrganization
             THEN [req EXCEPT !.pc = "done", !.status = 404]
           ELSE IF img.index >= 0 /\ img.index < Len(currentUrls)
             THEN [req EXCEPT !.pc = "update", !.newUrls = Splice(currentUrls, img.index)]
             ELSE [req EXCEPT !.pc = "done", !.status = 200]]
  /\ UNCHANGED <<dlContent, deleteRest>>

\* lines 330-347
SingleUpdate(r) ==
  /\ dlReqs[r].kind = "single"
  /\ dlReqs[r].pc = "update"
  /\ LET req == dlReqs[r] IN
       \/ /\ dlContent' = [dlContent EXCEPT ![req.images[1].emailId] = req.newUrls]
          /\ dlReqs' = [dlReqs EXCEPT ![r] =
               [req EXCEPT !.pc = "done", !.status = 200]]
       \/ /\ dlReqs' = [dlReqs EXCEPT ![r] = Answer500(req)]
          /\ UNCHANGED dlContent
  /\ UNCHANGED deleteRest

\* A bulk request with up to MaxBulkImages images has arrived, alone or
\* together with a request for one image (single, or bulk with one image).
DeleteInit ==
  /\ dlContent = StoredUrls
  /\ \E first \in { NewRequest("bulk", images) : images \in SeqsUpTo(ImageRefs, MaxBulkImages) },
        second \in {NoRequest}
                     \cup { NewRequest(kind, <<ref>>) : kind \in {"single", "bulk"},
                                                       ref \in ImageRefs } :
       dlReqs = <<first, second>>
  /\ MigrateOff
  /\ JoinOff
  /\ ResolverOff
  /\ FenceOff
  /\ PairOff
  /\ JobOff

DeleteNext ==
  \E r \in DeleteRequestIds :
    \/ BulkBegin(r)
    \/ BulkRead(r)
    \/ BulkUpdate(r)
    \/ SingleRead(r)
    \/ SingleUpdate(r)

DeleteSpec == DeleteInit /\ [][DeleteNext]_vars

\* ------------------------------------------------- create and join
\* Two users; organization 1 exists and has no member, organization 2
\* exists and may have user 2 as a member; request r creates organization
\* 10 + r.
UserIds == {1, 2}
JoinRequestIds == {1, 2}
NoProfile == [organization_id |-> 0, role |-> "none"]
CreatedBy(r) == 10 + r

\* storageService.js lines 562-601: getUserOrganization
HasOrganization(u) == jnProfiles[u] # NoProfile

\* organizations.js lines 140-147: existingMembers (limit 1) and the role
\* that follows from it
RoleFor(organizationId) ==
  IF { u \in UserIds : jnProfiles[u].organization_id = organizationId } = {}
    THEN "owner"
    ELSE "member"

\* what the steps of the two handlers leave alone
joinRest == <<jobRest, resolverVars, fenceVars, pairVars, migrateVars, deleteVars>>

JoinAnswer(req, status) == [req EXCEPT !.pc = "done", !.status = status]

\* organizations.js lines 54-60 and 105-112: either handler asks for the
\* user's organization and answers 400 when there is one
JoinCheckUser(r) ==
  /\ jnReqs[r].pc = "start"
  /\ LET req == jnReqs[r] IN
       jnReqs' = [jnReqs EXCEPT ![r] =
         IF HasOrganization(req.user)
           THEN JoinAnswer(req, 400)
           ELSE [req EXCEPT !.pc = IF req.kind = "create" THEN "create" ELSE "members"]]
  /\ UNCHANGED <<jnOrgs, jnProfiles, joinRest>>

\* lines 62-77: the recipient email is free and the organization is
\* created
JoinCreateOrganization(r) ==
  /\ jnReqs[r].pc = "create"
  /\ jnOrgs' = jnOrgs \cup {CreatedBy(r)}
  /\ jnReqs' = [jnReqs EXCEPT ![r] =
       [jnReqs[r] EXCEPT !.pc = "assign", !.organizationId = CreatedBy(r), !.role = "owner"]]
  /\ UNCHANGED <<jnProfiles, joinRest>>

\* lines 114-147: the organization is looked up and the role is chosen
\* from its members at this moment
JoinChooseRole(r) ==
  /\ jnReqs[r].pc = "members"
  /\ jnReqs' = [jnReqs EXCEPT ![r] =
       [jnReqs[r] EXCEPT !.pc = "assign", !.role = RoleFor(jnReqs[r].organizationId)]]
  /\ UNCHANGED <<jnOrgs, jnProfiles, joinRest>>

\* storageService.js lines 613-628: assignUserToOrganization reads the
\* user's profile and throws when it names another organization
JoinReadProfile(r) ==
  /\ jnReqs[r].pc = "assign"
  /\ LET req == jnReqs[r]
         existingProfile == jnProfiles[req.user]
     IN  jnReqs' = [jnReqs EXCEPT ![r] =
           IF existingProfile # NoProfile
                /\ existingProfile.organization_id # req.organizationId
             THEN JoinAnswer(req, 500)
             ELSE [req EXCEPT !.pc = IF existingProfile # NoProfile THEN "update"
                                                                   ELSE "insert"]]
  /\ UNCHANGED <<jnOrgs, jnProfiles, joinRest>>

\* lines 630-646: the existing row is updated
JoinUpdateProfile(r) ==
  /\ jnReqs[r].pc = "update"
  /\ LET req == jnReqs[r] IN
       /\ jnProfiles' = [jnProfiles EXCEPT ![req.user] =
            IF @ = NoProfile THEN @
            ELSE [organization_id |-> req.organizationId, role |-> req.role]]
       /\ jnReqs' = [jnReqs EXCEPT ![r] =
            JoinAnswer(req, IF jnProfiles[req.user] = NoProfile THEN 500
                            ELSE IF req.kind = "create" THEN 201 ELSE 200)]
  /\ UNCHANGED <<jnOrgs, joinRest>>

\* lines 650-669 with the primary key on user_id (schema.sql line 11): the
\* row is inserted, or the user has a row by now and the insert fails
JoinInsertProfile(r) ==
  /\ jnReqs[r].pc = "insert"
  /\ LET req == jnReqs[r] IN
       IF jnProfiles[req.user] = NoProfile
         THEN /\ jnProfiles' = [jnProfiles EXCEPT ![req.user] =
                   [organization_id |-> req.organizationId, role |-> req.role]]
              /\ jnReqs' = [jnReqs EXCEPT ![r] =
                   JoinAnswer(req, IF req.kind = "create" THEN 201 ELSE 200)]
         ELSE /\ jnReqs' = [jnReqs EXCEPT ![r] = JoinAnswer(req, 500)]
              /\ UNCHANGED jnProfiles
  /\ UNCHANGED <<jnOrgs, joinRest>>

\* Two requests have arrived, each from one of the users, to join
\* organization 1 or to create an organization.
JoinInit ==
  /\ jnOrgs = {1, 2}
  /\ jnProfiles \in { [u \in UserIds |-> NoProfile],
                      [u \in UserIds |-> IF u = 2
                                           THEN [organization_id |-> 2, role |-> "member"]
                                           ELSE NoProfile] }
  /\ jnReqs \in [JoinRequestIds ->
                   { [user |-> u, kind |-> k, pc |-> "start",
                      organizationId |-> IF k = "join" THEN 1 ELSE 0,
                      role |-> "none", status |-> 0] :
                     u \in UserIds, k \in {"join", "create"} }]
  /\ MigrateOff
  /\ DeleteOff
  /\ ResolverOff
  /\ FenceOff
  /\ PairOff
  /\ JobOff

JoinNext ==
  \E r \in JoinRequestIds :
    \/ JoinCheckUser(r)
    \/ JoinCreateOrganization(r)
    \/ JoinChooseRole(r)
    \/ JoinReadProfile(r)
    \/ JoinUpdateProfile(r)
    \/ JoinInsertProfile(r)

JoinSpec == JoinInit /\ [][JoinNext]_vars
\* ------------------------------------------------------------ PlanSpec
EmailShapes == SeqsUpTo(0..MaxImagesPerEmail, MaxEmails)

\* generateInstagramCaptions has been handed a message list and is about to
\* flatten it; the ceiling and the per-item estimate are arbitrary small
\* numbers with a short list, or the shipped constants with a list that
\* needs several batches.
PlanInit ==
  /\ \/ /\ emails \in { MkEmails(1, sh) : sh \in EmailShapes }
        /\ plMax \in 0..MaxCeiling
        /\ plEst \in 0..MaxWeight
     \/ /\ emails \in { MkEmails(1, sh) : sh \in LargeShapes }
        /\ plMax = maxBatchSizeKB
        /\ plEst = ESTIMATED_IMAGE_SIZE_KB
  /\ plPc = "flatten"
  /\ configured = TRUE
  /\ notificationEmail = FALSE
  /\ directory = <<>>
  /\ mailbox = [o \in OrgIds |-> <<>>]
  /\ entry = "cron"
  /\ userOrg = 0
  /\ selectedImages = <<>>
  /\ RunStart
  /\ ResolverOff
  /\ FenceOff
  /\ PairOff
  /\ DbOff

PlanNext == PlanFlatten \/ PlanIterate \/ PlanFinish

PlanSpec == PlanInit /\ [][PlanNext]_vars

\* The planner is straight-line synchronous code: every step that can run
\* does run.
PlanFairSpec == PlanSpec /\ WF_vars(PlanNext)

\* -------------------------------------------------- planner properties
\* C8 - Batching bound: every batch the planner has produced that holds
\* more than one image satisfies (size - 1) * w <= C, for every message
\* list, ceiling C and per-item weight w.
C8_BatchingBound ==
  \A b \in 1..Len(plState.batches) :
    Len(plState.batches[b]) > 1 =>
      (Len(plState.batches[b]) - 1) * plEst <= plMax

\* The bound was active: planning is over, some batch was closed because
\* the next image did not fit, and some batch holds several images.
C8_Witness ==
  /\ plPc = "planned"
  /\ plEst > 0
  /\ Len(plState.batches) > 1
  /\ \E b \in 1..Len(plState.batches) : Len(plState.batches[b]) > 1

\* Position of the first image of message i in the flattened list, minus 1.
OffsetOfEmail(msgs, m) ==
  SumSeq([j \in 1..(m - 1) |-> Len(msgs[j].imageUrls)])

\* C9 - Never drop images: once planning is over every batch is non-empty
\* and the batches, concatenated in order, are exactly the input images:
\* message by message in arrival order, each message's images in stored
\* order, each exactly once.
C9_NeverDropImages ==
  plPc = "planned" =>
    LET out == Concat(plState.batches) IN
      /\ \A b \in 1..Len(plState.batches) : Len(plState.batches[b]) > 0
      /\ Len(out) = OffsetOfEmail(emails, Len(emails) + 1)
      /\ \A m \in 1..Len(emails) :
           \A k \in 1..Len(emails[m].imageUrls) :
             /\ out[OffsetOfEmail(emails, m) + k].imageUrl = emails[m].imageUrls[k]
             /\ out[OffsetOfEmail(emails, m) + k].emailId = emails[m].id

\* Several messages, one of them without images, several batches, the last
\* batch pushed by the final flush.
C9_Witness ==
  /\ plPc = "planned"
  /\ Len(emails) >= 3
  /\ \E m \in 1..Len(emails) : Len(emails[m].imageUrls) = 0
  /\ Len(allImages) >= 4
  /\ Len(plState.batches) >= 2
  /\ \E b \in 1..Len(plState.batches) : Len(plState.batches[b]) >= 2

\* C10 - Oversized items: planning always terminates; when the per-item
\* estimate w exceeds the ceiling C the result is exactly one batch of size
\* 1 per image, and an empty image list gives no batches.
C10_OversizedItems ==
  /\ <>(plPc = "planned")
  /\ [](plPc = "planned" =>
         /\ (plEst > plMax =>
               /\ Len(plState.batches) = Len(allImages)
               /\ \A b \in 1..Len(plState.batches) :
                    plState.batches[b] = <<allImages[b]>>)
         /\ (allImages = <<>> => plState.batches = <<>>))

C10_Witness ==
  /\ plPc = "planned"
  /\ plEst > plMax
  /\ Len(allImages) >= 3
  /\ Len(plState.batches) = Len(allImages)

\* ------------------------------------------------- run properties
\* C1 - Early stop: while a batch of an auto-selection run is being
\* processed (its images are resolved, the model is invoked, a backoff
\* sleep is under way) the accumulator holds fewer than 3 posts; and from
\* the moment the accumulator holds 3 or more posts no further batch is
\* begun, no image is fetched, no failure is recorded for the run, and the
\* run hands its result to the caller.
C1_EarlyStop ==
  /\ [](pc \in {"resolve", "invoke", "sleep"} => Len(allPosts) < 3)
  /\ [][Len(allPosts) >= 3 =>
          /\ processed' = processed
          /\ fetchLog' = fetchLog
          /\ failedAt' = failedAt
          /\ (pc = "return" => pc' \in {"store", "storeUser", "done"} /\ Len(captions') >= 3)]_vars

\* A run stopped after its second batch with a third batch never begun.
C1_Witness ==
  /\ pc = "return"
  /\ Len(allPosts) >= 3
  /\ batchIndex = 2
  /\ Len(batches) = 3
  /\ processed[Org] = <<1, 2>>

\* Number of rows stored for organization o.
StoredFor(o) == Cardinality({ j \in 1..Len(stored) : stored[j].organization_id = o })

\* C2 - Cap: an auto-selection run never hands more than 5 posts to its
\* caller, whatever the batches returned; so no more than 5 are reported or
\* stored for an organization.
C2_Cap ==
  /\ Len(captions) <= 5
  /\ \A j \in 1..Len(results) : results[j].captionsGenerated <= 5
  /\ \A o \in OrgIds : StoredFor(o) <= 5

\* The run accumulated more than 5 posts over two batches and returned 5.
C2_Witness ==
  /\ pc = "store"
  /\ Len(allPosts) > 5
  /\ Len(captions) = 5
  /\ Len(processed[Org]) = 2

\* Positions of the results recorded for organization o.
ResultsFor(o) == { j \in 1..Len(results) : results[j].organization = o }

\* C3 - Fatal batch error is all-or-nothing: once the generation call for
\* batch k of an organization's run has failed fatally, the batches begun in
\* that run are exactly 1..k, the run has ended with an error (the daily
\* job's only result for the organization is a failure without captions,
\* the manual request is answered 500, the direct call threw and returned
\* nothing), and nothing of the run is stored or
\* notified, whatever had been accumulated from the batches before k.
C3_FatalBatchError ==
  \A o \in OrgIds :
    failedAt[o].batch > 0 =>
      /\ processed[o] = [b \in 1..failedAt[o].batch |-> b]
      /\ StoredFor(o) = 0
      /\ \A j \in 1..Len(notified) : notified[j].organization # o
      /\ CASE DailyJob ->
                /\ Cardinality(ResultsFor(o)) = 1
                /\ \A j \in ResultsFor(o) :
                     ~results[j].success /\ results[j].captionsGenerated = 0
           [] entry = "generate" -> pc = "done" /\ httpResponse.status = 500
           [] OTHER -> pc = "done" /\ thrown # NoError /\ captions = <<>>

\* The second of three batches failed after the first had yielded posts.
C3_Witness ==
  /\ pc = "done"
  /\ \E o \in OrgIds :
       /\ failedAt[o].batch = 2
       /\ failedAt[o].held >= 1
       /\ Len(mailbox[o]) = 3


\* ------------------------------------------------- retry properties
\* C4 - Retry bound: the attempts of one generation request, in either
\* mode, number at most 3, and only the last of them can have succeeded; no
\* invocation is pending or slept for once 3 attempts were made or an
\* attempt succeeded.
C4_RetryBound ==
  /\ Len(attempts) <= 3
  /\ \A j \in 1..Len(attempts) - 1 : ~attempts[j].ok
  /\ pc \in {"invoke", "sleep", "combinedInvoke", "combinedSleep"} =>
       /\ Len(attempts) < 3
       /\ \A j \in 1..Len(attempts) : ~attempts[j].ok

\* A batch request whose third attempt succeeded.
C4_Witness ==
  /\ entry = "cron"
  /\ pc = "return"
  /\ Len(attempts) = 3
  /\ attempts[3].ok

\* C5 - Retry only on overload: every attempt that was followed by another
\* one failed with status 529, each of them with one backoff sleep; a
\* request whose last attempt failed with another status has failed with
\* that failure, without a sleep after it and with no invocation pending.
C5_RetryOnlyOnOverload ==
  /\ \A j \in 1..Len(attempts) - 1 : attempts[j].error.status = 529
  /\ \A n \in 1..Len(attempts) :
       (n = Len(attempts) /\ ~attempts[n].ok /\ attempts[n].error.status # 529) =>
         /\ thrown = attempts[n].error
         /\ Len(sleeps) = n - 1
         /\ pc \notin {"invoke", "sleep", "combinedInvoke", "combinedSleep"}

\* The second attempt of a batch request failed with status 500 after the
\* first had failed with status 529.
C5_Witness ==
  /\ Len(attempts) = 2
  /\ attempts[1].error.status = 529
  /\ attempts[2].error.status = 500
  /\ \E o \in OrgIds : failedAt[o].batch > 0
  /\ sleeps = <<2000>>

C11_BatchSize ==
  plPc = "planned" =>
    /\ plEst <= plMax =>
         \A b \in 1..(Len(batches) - 1) :
           plEst > 0 /\ Len(batches[b]) = plMax \div plEst
    /\ (plMax = 30 * 1024 /\ plEst = 500 /\ Len(allImages) >= 62) =>
         /\ Len(batches) >= 2
         /\ batches[1] = SubSeq(allImages, 1, 61)
         /\ batches[2][1] = allImages[62]

\* 62 images were planned with the shipped constants.
C11_Witness ==
  /\ plPc = "planned"
  /\ plMax = maxBatchSizeKB
  /\ plEst = ESTIMATED_IMAGE_SIZE_KB
  /\ Len(allImages) = 62
  /\ Len(batches) = 2
  /\ Len(batches[2]) = 1

\* ------------------------------------------------- validator properties
\* the entry's image_index is a position 0..n-1 of the batch
ResolvesInside(batch, selection) ==
  /\ selection.image_index.kind \in {"int", "digits"}
  /\ selection.image_index.n \in 0..(Len(batch) - 1)

\* the posts for the entries that name a position of the batch, in order,
\* each with the message and the locator of the image it names
ExpectedPosts(batch, selections) ==
  LET kept == SelectSeq(selections, LAMBDA e : ResolvesInside(batch, e)) IN
    [j \in 1..Len(kept) |->
       LET image == batch[kept[j].image_index.n + 1] IN
         [caption_text |-> kept[j].caption,
          email_id |-> image.emailId,
          source_image_url |-> image.imageUrl,
          source_image_urls |-> <<image.imageUrl>>]]

\* the answer parsed and each entry of its list is a JSON object
ParsedEntries(v) ==
  /\ v.parsed.parses
  /\ \A j \in 1..Len(v.parsed.selections) : v.parsed.selections[j].object

\* C12 - Index safety: for a parsed selection-mode answer whose entries
\* are objects, processBatch returns exactly the posts of the entries whose
\* image_index is a position of the batch, in their order, each carrying the
\* message and locator of that image; every other entry is dropped.
C12_IndexSafety ==
  (validated.mode = "selection" /\ ParsedEntries(validated)) =>
    /\ ~validated.threw
    /\ validated.posts = ExpectedPosts(validated.batch, validated.parsed.selections)

\* the run the answer belonged to has ended with an error: the daily job
\* recorded a failure for the organization, the manual request was
\* answered 500, the direct call threw to its caller
EndedWithError ==
  CASE DailyJob ->
         Len(results) > 0 /\ ~results[Len(results)].success
                          /\ results[Len(results)].captionsGenerated = 0
    [] entry = "generate" -> pc = "done" /\ httpResponse.status = 500
    [] OTHER -> pc = "done" /\ thrown.message # "none"

\* C13 as stated - in both modes an answer that does not parse, or lacks
\* the required top-level field (`selections`, `caption`), makes the call
\* fail with an error.
C13_SchemaErrorFatal ==
  /\ validated.mode = "selection" =>
       ((~validated.parsed.parses \/ ~validated.parsed.hasSelections) => validated.threw)
  /\ validated.mode = "combined" =>
       ((~validated.parsed.parses \/ validated.parsed.caption = "missing") => validated.threw)

\* C13 amended - in both modes an answer that does not parse makes the call
\* fail with an error and the run end with it, no post being returned; so
\* does, in combined mode, an answer without `caption`.  In selection mode
\* an answer that parsed without `selections` is not an error.
C13_ParseFailureFatal ==
  /\ (validated.mode = "selection" /\ ~validated.parsed.parses) =>
       /\ validated.threw
       /\ validated.posts = <<>>
       /\ thrown = ParsingFailed
       /\ captions = <<>>
       /\ EndedWithError
  /\ (validated.mode = "combined"
        /\ (~validated.parsed.parses \/ validated.parsed.caption = "missing")) =>
       /\ validated.threw
       /\ validated.posts = <<>>
       /\ thrown = FailedToGenerate
       /\ captions = <<>>
       /\ EndedWithError
  /\ (validated.mode = "selection" /\ validated.parsed.parses
        /\ ~validated.parsed.hasSelections) => ~validated.threw

\* The answer for the second batch did not parse while the first batch's
\* posts were held.
C13_Witness ==
  /\ validated.mode = "selection"
  /\ ~validated.parsed.parses
  /\ validated.threw
  /\ \E o \in OrgIds : failedAt[o].batch = 2 /\ failedAt[o].held >= 1

\* C14 - Empty selections are not an error: when a selection-mode answer
\* parsed and its `selections` is missing or an empty list, processBatch
\* returns no posts and throws nothing, no failure is recorded for the run,
\* and the run goes on: to the first image of the next batch if there is
\* one, else to its return.
C14_EmptySelections ==
  (/\ validated.mode = "selection"
   /\ validated.parsed.parses
   /\ (~validated.parsed.hasSelections \/ validated.parsed.selections = <<>>)) =>
    /\ ~validated.threw
    /\ validated.posts = <<>>
    /\ thrown = NoError
    /\ failedAt[Org].batch = 0
    /\ IF pc = "return"
         THEN batchIndex = Len(batches) /\ validated.batch = batches[batchIndex]
         ELSE /\ pc = "resolve"
              /\ imageIndex = 0
              /\ batchIndex > 1
              /\ validated.batch = batches[batchIndex - 1]
              /\ processed[Org] = [b \in 1..batchIndex |-> b]

\* The answer for the first of several batches had no `selections` and the
\* second batch was begun.
C14_Witness ==
  /\ validated.mode = "selection"
  /\ validated.parsed.parses
  /\ ~validated.parsed.hasSelections
  /\ pc = "resolve"
  /\ batchIndex = 2

\* ------------------------------------------------- combined properties
\* C15 - Combined-mode cap: with more than 5 images no image is fetched,
\* the model is never invoked and nothing is stored; generateCombinedPost
\* called on its own has thrown at once (the cap error when the client is
\* configured), and the manual request is answered with an error.
C15_CombinedCap ==
  (entry \in {"call", "generate"} /\ Len(selectedImages) > 5) =>
    /\ fetchLog = <<>>
    /\ attempts = <<>>
    /\ stored = <<>>
    /\ captions = <<>>
    /\ pc \in {"idle", "getUserOrganization", "done"}
    /\ (entry = "call" /\ pc = "done") =>
         thrown = IF configured THEN TooManyImages ELSE NotConfigured
    /\ (entry = "generate" /\ pc = "done") => httpResponse.status \in {400, 403, 500}

\* generateCombinedPost was called with 6 images and threw the cap error.
C15_Witness ==
  /\ entry = "call"
  /\ Len(selectedImages) = 6
  /\ pc = "done"
  /\ thrown = TooManyImages

\* the attempts of a request that succeeded: the last one succeeded, every
\* earlier one failed with the overload signal
OneSuccessfulRequest ==
  /\ Len(attempts) \in 1..3
  /\ attempts[Len(attempts)].ok
  /\ \A j \in 1..(Len(attempts) - 1) :
       ~attempts[j].ok /\ attempts[j].error.status = 529

\* the post carries is_user_generated = true
Tagged(post) == "is_user_generated" \in DOMAIN post /\ post.is_user_generated

\* C16 - Combined mode yields one tagged post: with 1 to 5 images, when
\* generateCombinedPost has returned it has made one generation request
\* (one successful invocation, after overload failures only) and returned
\* one post; the manual handler hands exactly that one post to the Post
\* Repository with is_user_generated = true, and the row stored has it.
C16_OneTaggedPost ==
  (entry \in {"call", "generate"} /\ Len(selectedImages) \in 1..5) =>
    /\ (entry = "call" /\ pc = "done" /\ thrown = NoError) =>
         OneSuccessfulRequest /\ Len(captions) = 1
    /\ (entry = "generate" /\ pc = "storeUser") =>
         /\ OneSuccessfulRequest
         /\ Len(captions) = 1
         /\ Tagged(captions[1])
         /\ stored = <<>>
    /\ (entry = "generate" /\ pc = "done" /\ httpResponse.status = 200) =>
         /\ OneSuccessfulRequest
         /\ Len(stored) = 1
         /\ stored[1].is_user_generated
         /\ stored[1].organization_id = userOrg
    /\ (entry = "generate" /\ ~(pc = "done" /\ httpResponse.status = 200)) => stored = <<>>

\* A combined post of 5 images was stored after one retry.
C16_Witness ==
  /\ entry = "generate"
  /\ Len(selectedImages) = 5
  /\ pc = "done"
  /\ httpResponse.status = 200
  /\ Len(attempts) = 2
  /\ Len(stored) = 1
  /\ stored[1].is_user_generated

\* C17 - Combined mode requires a caption: when the combined-mode answer
\* parsed and its `caption` is missing or is anything but a non-empty
\* string, generateCombinedPost throws and produces no post.
C17_RequiresCaption ==
  (validated.mode = "combined" /\ validated.parsed.parses
     /\ validated.parsed.caption # "text") =>
    validated.threw /\ validated.posts = <<>> /\ captions = <<>>

\* the locators of the images, in order
UrlsOf(images) == [k \in 1..Len(images) |-> images[k].imageUrl]

ContextBlocks(blocks) == SelectSeq(blocks, LAMBDA b : b.text[1] = "Image")

\* the image blocks of a request, in order
ImageBlocks(blocks) == SelectSeq(blocks, LAMBDA b : b.type = "image")

\* one context block per image of the list, in order
ExpectedContext(images) ==
  [k \in 1..Len(images) |-> BatchContextBlock(k - 1, images[k])]

\* C19 - Per-image failures never abort the batch: in both modes a step of
\* the loop over the images, whatever the outcome of resolving the image,
\* leads to the next image or to the invocation of the model; and when the
\* model is invoked the loop has gone through every image, the request
\* holds the context block of every image in order and ends with the
\* instructions, and no error was thrown.
C19_NoAbortOnImageFailure ==
  /\ [](pc \in {"invoke", "sleep"} =>
          /\ imageIndex = Len(batches[batchIndex])
          /\ ContextBlocks(contentBlocks) = ExpectedContext(batches[batchIndex])
          /\ contentBlocks[Len(contentBlocks)] = BatchOutroBlock
          /\ thrown = NoError)
  /\ [](pc \in {"combinedInvoke", "combinedSleep"} =>
          /\ imageIndex = Len(selectedImages)
          /\ ContextBlocks(contentBlocks) = ExpectedContext(selectedImages)
          /\ contentBlocks[Len(contentBlocks)] = CombinedOutroBlock
          /\ thrown = NoError)
  /\ [][/\ pc = "resolve" => pc' \in {"resolve", "invoke"} /\ imageIndex' = imageIndex + 1
        /\ pc = "combinedResolve" =>
             pc' \in {"combinedResolve", "combinedInvoke"} /\ imageIndex' = imageIndex + 1]_vars

\* The model is about to be invoked for 5 selected images of which one
\* could be used: fetches failed, a locator was unsupported, an image was
\* too large.
C19_Witness ==
  /\ pc = "combinedInvoke"
  /\ Len(selectedImages) = 5
  /\ Len(ImageBlocks(contentBlocks)) = 1

\* every context block of the request is followed by the image block of
\* its image or by a placeholder block
PlaceholdersIn(blocks) ==
  \A j \in 1..Len(blocks) :
    blocks[j].text[1] = "Image" =>
      /\ j < Len(blocks)
      /\ \/ blocks[j + 1].type = "image"
         \/ blocks[j + 1] \in {TooLargeBlock, CouldNotLoadBlock}

\* C20 - Placeholder substitution: in selection mode and in combined mode,
\* the request the model is invoked with holds, for every image, its image
\* block or else a placeholder block in its place.
C20_Placeholders ==
  pc \in {"invoke", "combinedInvoke"} => PlaceholdersIn(contentBlocks)

\* the images the request is built from
RequestImages == IF resolved.mode = "selection" THEN batches[batchIndex] ELSE selectedImages

\* the request holds an image block for the image
HasImageBlock(blocks, image) ==
  \E j \in 1..Len(blocks) :
    blocks[j].type = "image" /\ blocks[j].text[2] = image.imageUrl.key

\* C26 - 5MB admission: after the step that resolved an image, in either
\* mode, the request holds an image block for that image if and only if
\* the image was resolved and three times the length of its payload is at
\* most 20 * 2^20 (its decoded size, 0.75 bytes per character, is at most
\* 5MB); the block then carries that payload.
C26_Admission ==
  resolved.mode # "none" =>
    LET admitted == resolved.outcome.ok /\ 3 * resolved.outcome.len <= 20 * 1024 * 1024 IN
      /\ HasImageBlock(contentBlocks, resolved.image) <=> admitted
      /\ admitted =>
           \E j \in 1..Len(contentBlocks) :
             contentBlocks[j] = ImageBlock(resolved.image, resolved.outcome)
      /\ \A k \in 1..Len(RequestImages) :
           (k > imageIndex) => ~HasImageBlock(contentBlocks, RequestImages[k])

\* A fetched image with the largest payload that decodes to no more than
\* 5MB was put in the request of a batch.
C26_Witness ==
  /\ resolved.mode = "selection"
  /\ resolved.outcome.ok
  /\ resolved.outcome.len = LimitPayload
  /\ HasImageBlock(contentBlocks, resolved.image)

\* the blocks of a request without the line-feed blocks that separate the
\* images
Unseparated(blocks) == SelectSeq(blocks, LAMBDA b : b # SeparatorBlock)

\* block b stands for the image: its image block, or a placeholder
StandsFor(b, image) ==
  \/ b.type = "image" /\ b.text[2] = image.imageUrl.key
  \/ b \in {TooLargeBlock, CouldNotLoadBlock}

\* the request, line-feed blocks apart, is intro, then for every image in
\* order its context block labelled with its position and the block that
\* stands for it, then outro
WellOrdered(blocks, images, intro, outro) ==
  LET content == Unseparated(blocks)
      n == Len(images)
  IN  /\ Len(content) = 2 * n + 2
      /\ content[1] = intro
      /\ \A k \in 1..n :
           /\ content[2 * k] = BatchContextBlock(k - 1, images[k])
           /\ StandsFor(content[2 * k + 1], images[k])
      /\ content[2 * n + 2] = outro

\* C27 - Request block order and index stability: the request the model
\* is invoked with holds, in either mode and apart from the line-feed
\* blocks, one instruction block, then for each image of the batch in
\* order its context block labelled Image k+1 followed by its image block
\* or its placeholder, then one trailing instruction block; so the k-th
\* context block describes the k-th image whatever became of the images.
C27_BlockOrder ==
  /\ pc = "invoke" =>
       WellOrdered(contentBlocks, batches[batchIndex],
                   BatchIntroBlock(batches[batchIndex]), BatchOutroBlock)
  /\ pc = "combinedInvoke" =>
       WellOrdered(contentBlocks, selectedImages,
                   CombinedIntroBlock(selectedImages), CombinedOutroBlock)

\* ------------------------------------------------- order properties
\* a post as the run returned it, without the mark of the manual handler
Unmarked(post) ==
  [caption_text |-> post.caption_text,
   email_id |-> post.email_id,
   source_image_url |-> post.source_image_url,
   source_image_urls |-> post.source_image_urls]

\* C21 - Output order: each validated answer of an auto-selection run
\* appends to the accumulator the posts of its valid selections, in the
\* order the model returned them; the accumulator changes in no other way
\* during the run; and the list handed to the caller is the first
\* min(5, n) elements of the accumulator, in its order.
C21_OutputOrder ==
  [][/\ (validated'.mode = "selection" /\ ~validated'.threw) =>
          allPosts' = allPosts \o ExpectedPosts(validated'.batch,
                                                validated'.parsed.selections)
     /\ (validated'.mode # "selection" /\ allPosts' # allPosts) => allPosts' = <<>>
     /\ (pc = "return" /\ pc' \in {"store", "storeUser"}) =>
          [j \in 1..Len(captions') |-> Unmarked(captions'[j])]
            = [j \in 1..Min(5, Len(allPosts)) |-> allPosts[j]]]_vars

\* the images fetched over the network when the given images are resolved
\* in list order
HttpKeys(images) ==
  LET remote == SelectSeq(images, LAMBDA im : im.imageUrl.form = "http") IN
    [k \in 1..Len(remote) |-> remote[k].imageUrl.key]

\* where the auto-selection run is: outside the run (not begun, or its
\* result or error handed to the caller), planning, processing batch k, or
\* past its loop
RunPhase ==
  CASE pc = "plan" -> <<"Planning", 0>>
    [] pc \in {"resolve", "invoke", "sleep"} -> <<"ProcessingBatch", batchIndex>>
    [] pc = "return" -> <<"Stopped", 0>>
    [] OTHER -> <<"Outside", 0>>

\* the phases that can follow a phase
NextPhases(phase) ==
  CASE phase[1] = "Outside" -> {<<"Outside", 0>>, <<"Planning", 0>>, <<"Stopped", 0>>}
    [] phase[1] = "Planning" ->
         {<<"Planning", 0>>, <<"ProcessingBatch", 1>>, <<"Stopped", 0>>}
    [] phase[1] = "ProcessingBatch" ->
         {phase, <<"ProcessingBatch", phase[2] + 1>>, <<"Stopped", 0>>, <<"Outside", 0>>}
    [] OTHER -> {<<"Outside", 0>>}

\* C22 - Strictly sequential run: the batches begun in a run are 1..k in
\* increasing order, each once; while batch k is processed the network
\* fetches of the run are those of the remote images of batches 1..k-1 and
\* of the images of batch k gone through so far, in list order; the model
\* is not invoked before every image of the batch was gone through, and an
\* attempt starts only after the sleep that followed the previous one;
\* batch k+1 is begun only by the step that validated the answer for batch
\* k and appended its posts; and the run moves Planning ->
\* ProcessingBatch(1) -> ... -> Stopped -> handed over, or leaves a batch
\* with an error.
C22_Sequential ==
  /\ [](pc \in {"resolve", "invoke", "sleep"} =>
          /\ processed[Org] = [b \in 1..batchIndex |-> b]
          /\ batchIndex \in 1..Len(batches)
          /\ fetchLog =
               HttpKeys(Concat(SubSeq(batches, 1, batchIndex - 1)))
                 \o HttpKeys(SubSeq(batches[batchIndex], 1, imageIndex))
          /\ (pc = "resolve" =>
                imageIndex < Len(batches[batchIndex]) /\ attempts = <<>> /\ sleeps = <<>>)
          /\ (pc = "invoke" =>
                imageIndex = Len(batches[batchIndex])
                  /\ Len(attempts) = i /\ Len(sleeps) = i)
          /\ (pc = "sleep" => Len(attempts) = i + 1 /\ Len(sleeps) = i + 1))
  /\ [][/\ RunPhase' \in NextPhases(RunPhase)
        /\ (RunPhase[1] = "ProcessingBatch" /\ RunPhase' = <<"ProcessingBatch", batchIndex + 1>>) =>
             /\ validated'.mode = "selection"
             /\ ~validated'.threw
             /\ validated'.batch = batches[batchIndex]
             /\ allPosts' = allPosts \o validated'.posts
             /\ imageIndex' = 0
        /\ (RunPhase[1] = "ProcessingBatch" /\ RunPhase'[1] = "Outside") =>
             thrown' # NoError /\ failedAt'[Org].batch = batchIndex]_vars

\* The model is invoked for the third batch of a run, after the remote
\* images of all three batches were fetched.
C22_Witness ==
  /\ pc = "invoke"
  /\ batchIndex = 3
  /\ processed[Org] = <<1, 2, 3>>
  /\ Len(fetchLog) = 3

\* ------------------------------------------------- error properties
\* C23 - Configuration error: without a generation client a call of
\* generateInstagramCaptions or generateCombinedPost, whatever its input,
\* ends at once with the error `Claude client not configured` (the
\* handlers, which test the key themselves, answer 500 at once, and the
\* node-cron job is not scheduled): no image
\* is fetched, the model is never invoked, nothing is slept for, planned,
\* returned or stored.
C23_ConfigurationError ==
  /\ [](~configured =>
          /\ pc \in {"idle", "done"}
          /\ plPc = "idle"
          /\ fetchLog = <<>>
          /\ attempts = <<>>
          /\ sleeps = <<>>
          /\ captions = <<>>
          /\ stored = <<>>
          /\ (pc = "done" =>
                CASE entry \in {"select", "call"} -> thrown = NotConfigured
                  [] entry = "schedule" ->
                       httpResponse.logged = "disabled: missing CLAUDE_API_KEY"
                  [] OTHER -> httpResponse.status = 500))
  /\ [][(~configured /\ pc = "idle") => pc' = "done"]_vars

\* generateInstagramCaptions was called without a client and with no
\* message, and threw.
C23_Witness ==
  /\ ~configured
  /\ entry = "select"
  /\ mailbox[userOrg] = <<>>
  /\ pc = "done"
  /\ thrown = NotConfigured

\* C24 - Notification failure never fails the pipeline: while the summary
\* of an organization is being sent its posts are stored; and when sending
\* fails, the organization's result is a success with the number of posts
\* stored, the stored posts stay, and the job goes on to the next
\* organization, or answers with success after the last one.
C24_NotifyFailureIgnored ==
  /\ [](pc = "notify" => StoredFor(Org) = Len(captions) /\ Len(captions) > 0)
  /\ [][(pc = "notify" /\ notified' = notified) =>
          /\ Len(results') = Len(results) + 1
          /\ results'[Len(results')].organization = Org
          /\ results'[Len(results')].success
          /\ results'[Len(results')].captionsGenerated = StoredFor(Org)
          /\ stored' = stored
          /\ IF orgIdx < Len(organizations)
               THEN pc' = "fetchEmails" /\ orgIdx' = orgIdx + 1
               ELSE pc' = "done" /\ httpResponse'.status = 200
                      /\ httpResponse'.success
                      /\ httpResponse'.totalCaptions >= StoredFor(Org)]_vars

\* The summary for the first of two organizations could not be sent; its
\* posts are stored and the second organization was processed.
C24_Witness ==
  /\ entry = "cron"
  /\ notificationEmail
  /\ pc = "done"
  /\ notified = <<>>
  /\ Len(results) = 2
  /\ results[1].success
  /\ results[1].captionsGenerated > 0
  /\ StoredFor(results[1].organization) = results[1].captionsGenerated

\* ------------------------------------------------- resolver properties
\* the locator reads data:<media type>;base64,<payload>, the marker at
\* position p: a media type without semicolon, a payload on one line
InlineAt(url, p) ==
  /\ url[1] = "data:"
  /\ url[p] = ";base64,"
  /\ \A q \in 2..(p - 1) : url[q] \notin {";", ";base64,"}
  /\ \A q \in (p + 1)..Len(url) : url[q] # "nl"

InlineForm(url) == \E p \in 3..(Len(url) - 1) : InlineAt(url, p)

BeginsWithHttp(url) == url # <<>> /\ Head(url) \in {"http://", "https://"}

\* C25 - Image resolver classification: once imageUrlToBase64 has run up
\* to its first await or its end, it has requested the locator over the
\* network, once, if and only if the locator is not inline and begins with
\* http:// or https://; an inline locator was returned split into media
\* type and payload; any other locator made it throw; a response with a
\* status that is not a success made it throw; and a fetched image whose
\* response had no content type was returned as image/png.
C25_ResolverClassification ==
  rsPc \in {"fetch", "read", "returned", "threw"} =>
    /\ rsNet \in {<<>>, <<rsUrl>>}
    /\ (rsNet # <<>>) <=> (~InlineForm(rsUrl) /\ BeginsWithHttp(rsUrl))
    /\ InlineForm(rsUrl) =>
         /\ rsPc = "returned"
         /\ \E p \in 3..(Len(rsUrl) - 1) :
              /\ InlineAt(rsUrl, p)
              /\ rsResult = Value(SubSeq(rsUrl, 2, p - 1),
                                  SubSeq(rsUrl, p + 1, Len(rsUrl)))
    /\ (~InlineForm(rsUrl) /\ ~BeginsWithHttp(rsUrl)) =>
         rsPc = "threw" /\ rsResult.kind = "error"
    /\ (rsResponse.received /\ ~rsResponse.ok) =>
         rsPc = "threw" /\ rsResult.kind = "error"
    /\ (rsPc = "returned" /\ rsNet # <<>>) =>
         /\ rsResponse.received /\ rsResponse.ok
         /\ rsResult.kind = "value"
         /\ rsResponse.contentType = "none" => rsResult.mediaType = <<"image/png">>
         /\ rsResponse.contentType = "image/jpeg" => rsResult.mediaType = <<"image/jpeg">>

\* A remote image was fetched and its response carried no content type.
C25_Witness ==
  /\ rsPc = "returned"
  /\ rsNet # <<>>
  /\ rsResponse.contentType = "none"
  /\ rsResult.mediaType = <<"image/png">>

\* ------------------------------------------------- parsing properties
Blank == SeqsUpTo(Whitespace, 1)

\* the JSON document, white space around it allowed
Bare == { lead \o <<"{a}">> \o trail : lead \in Blank, trail \in Blank }

\* a leading fence line, with or without json, the JSON document, a trailing
\* fence line; white space around the whole allowed
Fenced ==
  { lead \o <<"fence">> \o lang \o <<"nl", "{a}", "nl", "fence">> \o trail :
      lead \in Blank, lang \in {<<>>, <<"json">>}, trail \in Blank }

\* C28 - Fence stripping: a text that is a JSON document between a
\* leading fence line (the fence, or the fence and json) and a trailing
\* fence line is parsed
\* to the object the bare document parses to, and so is the bare document
\* itself; its text is handed to the parser unchanged but for the white
\* space around it.
C28_FenceStripping ==
  /\ (fsPc \in {"parsed", "threw"} /\ fsText \in Fenced \cup Bare) =>
       /\ fsPc = "parsed"
       /\ JsonParse(<<"{a}">>).ok
       /\ fsParsed = JsonParse(<<"{a}">>).value
  /\ (fsPc \in {"stripped", "parsed", "threw"} /\ fsText \in Bare) =>
       fsJson = <<"{a}">>

\* A document between a fence line with json and a fence line was parsed.
C28_Witness ==
  /\ fsPc = "parsed"
  /\ fsText = <<"fence", "json", "nl", "{a}", "nl", "fence">>
  /\ fsParsed = "a"

\* ------------------------------------------------- properties of two calls
\* what the request for a batch comes to when its attempts are those of
\* the script, from attempt a (0-based) on
RECURSIVE SoloRequest(_, _)
SoloRequest(script, a) ==
  LET outcome == script[a + 1] IN
    IF outcome.kind = "answer" THEN [ok |-> TRUE, n |-> outcome.n]
    ELSE IF BatchShouldRetry(ApiError(outcome.status, a + 1), a)
              /\ BatchLoopContinues(a + 1)
      THEN SoloRequest(script, a + 1)
      ELSE [ok |-> FALSE, n |-> 0]

\* what the call r returns when it runs alone, from batch b on with acc
\* accumulated
RECURSIVE SoloRun(_, _, _, _)
SoloRun(r, cfg, b, acc) ==
  IF b > Len(cfg.sizes) THEN [ok |-> TRUE, posts |-> CapPosts(acc)]
  ELSE LET request == SoloRequest(cfg.script[b], 0)
           held == acc \o PairPosts(r, b, request.n)
       IN  IF ~request.ok THEN [ok |-> FALSE, posts |-> <<>>]
           ELSE IF EnoughPosts(held) THEN [ok |-> TRUE, posts |-> CapPosts(held)]
           ELSE SoloRun(r, cfg, b + 1, held)

\* C29 - No shared run state: with two calls interleaved at any of their
\* suspension points, a call that has ended has returned, or failed, as
\* it would have alone with the same input and the same answers; the posts
\* a call holds or has returned are its own; and a step of one call
\* changes nothing of the other, so the early stop or the failure of one
\* does not stop the other.
C29_NoSharedState ==
  /\ [](\A r \in RunIds :
          /\ runs[r].pc = "done" =>
               runs[r].result = SoloRun(r, runs[r], 1, <<>>)
          /\ \A k \in 1..Len(runs[r].allPosts) : runs[r].allPosts[k][1] = r
          /\ \A k \in 1..Len(runs[r].result.posts) : runs[r].result.posts[k][1] = r)
  /\ [][\E r \in RunIds : \A q \in RunIds \ {r} : runs'[q] = runs[q]]_vars

\* The first call failed at its second batch while the second call, which
\* ran in between, has returned the posts of its own two batches.
C29_Witness ==
  /\ runs[1].pc = "done"
  /\ ~runs[1].result.ok
  /\ runs[1].batchIndex = 2
  /\ runs[1].overlapped
  /\ runs[2].pc = "done"
  /\ runs[2].overlapped
  /\ runs[2].result.ok
  /\ Len(runs[2].result.posts) = 4

\* ------------------------------------------------- daily job properties
\* the daily job ended after its loop: the HTTP endpoint answered success
\* with the results, the node-cron job logged its completion
JobCompleted ==
  IF entry = "cron"
    THEN /\ httpResponse.status = 200
         /\ httpResponse.success
         /\ httpResponse.organizations = results
    ELSE httpResponse.logged = "completed for all organizations"

\* C30 - Organization failure isolation: in the daily job (HTTP endpoint
\* and node-cron job) the organizations are processed in list order, one
\* result each; a failure while processing an organization (message fetch,
\* generation or storage) is recorded for that organization only, leaves
\* the earlier results, the stored posts and the notifications as they
\* were, and the loop goes on with the next organization; once the list is
\* worked through, the job completes and reports success, with the posts
\* of every successful organization stored and none of a failed one.
C30_OrgFailureIsolation ==
  /\ [](DailyJob =>
          /\ Len(results) <= Len(organizations)
          /\ \A j \in 1..Len(results) : results[j].organization = organizations[j]
          /\ (pc \notin {"idle", "listOrganizations", "done"}) => Len(results) = orgIdx - 1
          /\ (pc = "done" /\ organizations # <<>>) =>
                /\ Len(results) = Len(organizations)
                /\ JobCompleted
                /\ \A j \in 1..Len(results) :
                     StoredFor(organizations[j]) =
                       IF results[j].success THEN results[j].captionsGenerated ELSE 0)
  /\ [][(DailyJob /\ Len(results') = Len(results) + 1 /\ ~results'[Len(results')].success) =>
          /\ SubSeq(results', 1, Len(results)) = results
          /\ results'[Len(results')].organization = Org
          /\ results'[Len(results')].captionsGenerated = 0
          /\ stored' = stored
          /\ notified' = notified
          /\ IF orgIdx < Len(organizations)
               THEN orgIdx' = orgIdx + 1 /\ pc' = "fetchEmails"
               ELSE pc' = "done"]_vars

\* The HTTP endpoint worked through two organizations: the first failed,
\* the second had its posts stored, and the job answered success.
C30_Witness ==
  /\ entry = "cron"
  /\ pc = "done"
  /\ Len(organizations) = 2
  /\ Len(results) = 2
  /\ ~results[1].success
  /\ results[2].success
  /\ results[2].captionsGenerated > 0
  /\ StoredFor(organizations[2]) = results[2].captionsGenerated
  /\ StoredFor(organizations[1]) = 0
  /\ httpResponse.status = 200

\* ------------------------------------------------- storage properties
\* the rows stored under an organization, in insertion order
RowsOf(o) == SelectSeq(stored, LAMBDA row : row.organization_id = o)

\* the summaries delivered for an organization
NotifiedFor(o) == { j \in 1..Len(notified) : notified[j].organization = o }

\* C31 - Store-then-notify ordering: in the daily job a summary is sent
\* for an organization only from the step that follows the successful
\* storing of its posts in the same iteration, and it carries exactly the
\* posts just stored; an organization whose generation returned no caption
\* has nothing stored and no summary, and an organization whose generation
\* or storage failed has no summary and nothing stored.
C31_StoreThenNotify ==
  /\ [][(notified' # notified) =>
          /\ entry = "cron"
          /\ pc = "notify"
          /\ captions # <<>>
          /\ notified' = Append(notified, [organization |-> Org, posts |-> captions])
          /\ RowsOf(Org) = StoreRows(captions, Org)
          /\ stored' = stored]_vars
  /\ [](DailyJob =>
          /\ \A j \in 1..Len(results) :
               /\ ~results[j].success => results[j].captionsGenerated = 0
               /\ results[j].captionsGenerated = 0 =>
                    /\ RowsOf(results[j].organization) = <<>>
                    /\ NotifiedFor(results[j].organization) = {}
          /\ \A j \in 1..Len(notified) :
               RowsOf(notified[j].organization) =
                 StoreRows(notified[j].posts, notified[j].organization))

\* Of two organizations the first failed or yielded no caption and got no
\* summary; the second had its posts stored and then its summary sent.
C31_Witness ==
  /\ entry = "cron"
  /\ pc = "done"
  /\ Len(results) = 2
  /\ results[1].captionsGenerated = 0
  /\ ~results[1].success
  /\ results[2].captionsGenerated > 0
  /\ Len(notified) = 1
  /\ notified[1].organization = organizations[2]
  /\ Len(RowsOf(organizations[2])) = results[2].captionsGenerated

\* the row carries the id of one of the messages fetched for the
\* organization and the locator of one of that message's images
FromMessageOf(row, o) ==
  \E m \in 1..Len(mailbox[o]) :
    /\ row.email_id = mailbox[o][m].id
    /\ \E k \in 1..Len(mailbox[o][m].imageUrls) :
         row.source_image_url = mailbox[o][m].imageUrls[k]

\* C32 as stated - Tenant integrity of stored posts: every post the daily
\* job stores under an organization has the email_id and the source image
\* URL of an image of a message fetched for that organization, so no post
\* derived from one organization's messages is stored under another.
C32_TenantIntegrity ==
  DailyJob =>
    \A j \in 1..Len(stored) : FromMessageOf(stored[j], stored[j].organization_id)

\* ------------------------------------------------- run properties (2)
\* C33 - No images, no calls: with a configured client, a call of
\* generateInstagramCaptions whose input has no image (no message, or only
\* messages without images) fetches no image, never invokes the model,
\* sleeps for nothing, and returns the empty list without an error.
C33_NoImagesNoCalls ==
  (entry = "select" /\ configured /\ FlattenImages(mailbox[userOrg]) = <<>>) =>
    /\ pc \in {"idle", "plan", "return", "done"}
    /\ fetchLog = <<>>
    /\ attempts = <<>>
    /\ sleeps = <<>>
    /\ thrown = NoError
    /\ allPosts = <<>>
    /\ captions = <<>>
    /\ (pc \in {"return", "done"} => batches = <<>>)

\* The call with two messages that hold no image has returned.
C33_Witness ==
  /\ entry = "select"
  /\ configured
  /\ Len(mailbox[userOrg]) = 2
  /\ FlattenImages(mailbox[userOrg]) = <<>>
  /\ pc = "done"
  /\ captions = <<>>
  /\ thrown = NoError

\* no element of the sequence occurs twice
NoRepeat(seq) == Cardinality({ seq[n] : n \in 1..Len(seq) }) = Len(seq)

\* C34 - Each image is resolved at most once per run: the planned batches,
\* put end to end, are the images of the run, each once, and they stay as
\* planned while the batches are processed; an image
\* is resolved only by the step that goes from its place to the next one,
\* before the first attempt of its batch, and the place never goes back
\* within a run, so no image is fetched twice; the attempts and the sleeps
\* of a batch leave the request and the fetches as they are; and when the
\* loop over the batches has stopped, the fetches are those of the batches
\* up to the one it stopped in, none of a later batch.
C34_ResolvedOnce ==
  /\ [](NoRepeat(fetchLog))
  /\ [](pc = "return" =>
          fetchLog = HttpKeys(Concat(SubSeq(batches, 1, batchIndex))))
  /\ [][/\ (plPc # "planned" /\ plPc' = "planned") =>
             Concat(batches') = allImages' /\ NoRepeat(allImages')
        /\ (pc \in {"resolve", "invoke", "sleep"} /\ pc' \in {"resolve", "invoke", "sleep", "return"}) =>
             batches' = batches /\ allImages' = allImages
        /\ (resolved' # NotResolved /\ resolved'.mode = "selection") =>
             /\ pc = "resolve"
             /\ attempts = <<>>
             /\ resolved'.image = batches[batchIndex][imageIndex + 1]
             /\ imageIndex' = imageIndex + 1
             /\ batchIndex' = batchIndex
        /\ (pc \in {"resolve", "invoke", "sleep"} /\ pc' \in {"resolve", "invoke", "sleep"}) =>
             \/ batchIndex' = batchIndex /\ imageIndex' >= imageIndex
             \/ batchIndex' = batchIndex + 1 /\ imageIndex' = 0
        /\ (pc \in {"invoke", "sleep"}) =>
             /\ fetchLog' = fetchLog
             /\ resolved' = NotResolved
             /\ (pc' \in {"invoke", "sleep"} /\ batchIndex' = batchIndex) =>
                  contentBlocks' = contentBlocks
        /\ (pc \notin {"resolve", "combinedResolve"}) =>
             fetchLog' \in {fetchLog, <<>>}]_vars

\* A run of three batches stopped in its second batch, after an attempt of
\* that batch was retried: the remote images of two batches were fetched,
\* the one of the third batch was not.
C34_Witness ==
  /\ pc = "return"
  /\ Len(batches) = 3
  /\ batchIndex = 2
  /\ Len(attempts) >= 2
  /\ Len(fetchLog) = 2
  /\ Len(HttpKeys(allImages)) = 3

\* C35 - Termination: when every fetch, invocation and sleep returns or
\* fails in the end, an auto-selection run, once begun, ends (it returns
\* or throws); it begins each of its B batches at most once, goes through
\* the images of a batch once, so it fetches at most N images, invokes the
\* model at most 3 times and sleeps at most 6000 ms for a batch.  A
\* combined run, once begun, ends, after at most 5 fetches and 3
\* invocations.
C35_Termination ==
  /\ [](pc \in {"resolve", "invoke", "sleep", "return"} =>
          /\ Len(processed[Org]) <= Len(batches)
          /\ NoRepeat(processed[Org])
          /\ (pc # "return" => imageIndex <= Len(batches[batchIndex]))
          /\ Len(fetchLog) <= Len(allImages)
          /\ Len(attempts) <= 3
          /\ Len(sleeps) <= 2
          /\ SumSeq(sleeps) <= 6000)
  /\ [](pc \in {"combinedResolve", "combinedInvoke", "combinedSleep"} =>
          /\ imageIndex <= Len(selectedImages)
          /\ Len(fetchLog) <= 5
          /\ Len(attempts) <= 3)
  /\ (pc \in {"plan", "resolve", "invoke", "sleep", "return"})
       ~> (pc \notin {"plan", "resolve", "invoke", "sleep", "return"})
  /\ (pc \in {"combinedResolve", "combinedInvoke", "combinedSleep"})
       ~> (pc \notin {"combinedResolve", "combinedInvoke", "combinedSleep"})

\* The third batch of a run used all it may: three invocations, the first
\* two overloaded and slept for, 6000 ms in all; the run is about to
\* return.
C35_Witness ==
  /\ pc = "return"
  /\ Len(batches) = 3
  /\ processed[Org] = <<1, 2, 3>>
  /\ Len(attempts) = 3
  /\ SumSeq(sleeps) = 6000
  /\ Len(fetchLog) = 3

\* ------------------------------------------------- migration properties
\* C36 - Migration runner: after any sequence of invocations, failing ones
\* included, the SQL of each file is committed at most once; the filenames
\* in schema_migrations are the files whose SQL is committed; an
\* invocation commits its pending files in ascending filename order and
\* ends without failure only when every file it listed is recorded; a
\* failing migration leaves the database as it was before its transaction,
\* is the last file the invocation touches, and ends the invocation.
C36_MigrationRunner ==
  /\ [](mgPc # "off" =>
          /\ NoRepeat(mgDb.applied)
          /\ { mgDb.applied[n] : n \in 1..Len(mgDb.applied) } = mgDb.schema_migrations
          /\ \A a, b \in 1..Len(mgLog) : a < b =>
               /\ mgLog[a].outcome = "committed"
               /\ mgLog[a].file < mgLog[b].file
          /\ \A n \in 1..Len(mgLog) :
               (mgLog[n].file \in mgDb.schema_migrations) = (mgLog[n].outcome = "committed")
          /\ (Len(mgLog) > 0 /\ mgLog[Len(mgLog)].outcome = "failed") =>
               mgPc = "idle" /\ ~mgTx.open)
  /\ [][/\ (mgDb' # mgDb) =>
             /\ mgPc = "inserted"
             /\ mgDb'.applied = Append(mgDb.applied, Head(mgTodo))
             /\ mgDb'.schema_migrations = mgDb.schema_migrations \cup {Head(mgTodo)}
             /\ Head(mgTodo) \notin mgExecuted
             /\ \A f \in mgFiles : f < Head(mgTodo) => f \in mgDb.schema_migrations
        /\ (mgPc = "loop" /\ mgPc' = "idle" /\ mgTodo' = <<>>) =>
             mgFiles \subseteq mgDb.schema_migrations]_vars

\* After a first invocation that failed on the second of three files, a
\* second invocation committed the second and the third.
C36_Witness ==
  /\ mgRuns = 2
  /\ mgPc = "idle"
  /\ mgFiles = {1, 2, 3}
  /\ mgDb.applied = <<1, 2, 3>>
  /\ [n \in 1..Len(mgLog) |-> mgLog[n].file] = <<2, 3>>
  /\ mgLog[2].outcome = "committed"

\* ------------------------------------------------- image delete properties
\* the indices the images name for the email
RequestedIndices(images, e) ==
  { images[n].index : n \in { m \in 1..Len(images) : images[m].emailId = e } }

\* the list without the entries at the given 0-based indices, the others
\* in their order
RECURSIVE WithoutIndices(_, _, _)
WithoutIndices(urls, indices, at) ==
  IF urls = <<>> THEN <<>>
  ELSE (IF at \in indices THEN <<>> ELSE <<Head(urls)>>)
         \o WithoutIndices(Tail(urls), indices, at + 1)

\* what the stored lists are after exactly the images named were removed
\* from the emails of the caller's organization
AfterRemoving(images) ==
  [e \in EmailIds |->
     IF OrganizationOf(e) = CallerOrganization
       THEN WithoutIndices(StoredUrls[e], RequestedIndices(images, e), 0)
       ELSE StoredUrls[e]]

\* the number of entries gone from the stored lists
EntriesRemoved == SumSeq([e \in 1..2 |-> Len(StoredUrls[e]) - Len(dlContent[e])])

\* C37 as stated - Bulk image delete removes exactly the requested images:
\* when a bulk request, run alone, has answered 200, every email of the
\* caller's organization holds its original list without the entries at
\* the requested indices, in the original order, whatever the request,
\* also one that names an index twice; deletedCount is the number of
\* entries removed; the emails of other organizations are as they were.
C37_BulkDeleteExact ==
  (dlReqs # <<>> /\ dlReqs[2].kind = "none" /\ dlReqs[1].pc = "done"
     /\ dlReqs[1].status = 200) =>
    /\ dlContent = AfterRemoving(dlReqs[1].images)
    /\ dlReqs[1].deletedCount = EntriesRemoved

\* the images a request names in the email, by their place in the list
\* as it was stored when the requests were made
Targeted(images, e) ==
  { StoredUrls[e][n + 1] : n \in RequestedIndices(images, e) \cap 0..(Len(StoredUrls[e]) - 1) }

\* the entries of the list, as a set
Entries(urls) == { urls[n] : n \in 1..Len(urls) }

\* C38 as stated - Concurrent image deletes are not lost: when two delete
\* requests (single or bulk) for the same email that target different
\* images have both answered 200, however their steps were interleaved,
\* the images both targeted are gone from the email's image_urls and every
\* other image is still there.
C38_ConcurrentDeletes ==
  (/\ dlReqs # <<>>
   /\ dlReqs[2].kind # "none"
   /\ \A r \in DeleteRequestIds :
        /\ dlReqs[r].pc = "done"
        /\ dlReqs[r].status = 200
        /\ Len(dlReqs[r].images) = 1
        /\ dlReqs[r].images[1].emailId = 1
        /\ Targeted(dlReqs[r].images, 1) # {}
   /\ Targeted(dlReqs[1].images, 1) \cap Targeted(dlReqs[2].images, 1) = {}) =>
    Entries(dlContent[1]) =
      Entries(StoredUrls[1]) \ (Targeted(dlReqs[1].images, 1) \cup Targeted(dlReqs[2].images, 1))

\* ------------------------------------------------- membership properties
\* the users that belong to the organization
MembersOf(organizationId) ==
  { u \in UserIds : jnProfiles[u].organization_id = organizationId }

\* C39 as stated - First joiner becomes the only owner: when the join
\* requests of distinct users to an organization without members have all
\* been answered, however their steps were interleaved, exactly one of the
\* users who joined is its owner and every other one is a member; and no
\* step of a create or join request moves a user who belongs to an
\* organization to another one.
C39_FirstJoinerOwner ==
  /\ []((/\ jnReqs # <<>>
         /\ jnReqs[1].user # jnReqs[2].user
         /\ \A r \in JoinRequestIds : jnReqs[r].kind = "join" /\ jnReqs[r].pc = "done"
         /\ MembersOf(1) # {}) =>
          Cardinality({ u \in MembersOf(1) : jnProfiles[u].role = "owner" }) = 1
            /\ \A u \in MembersOf(1) : jnProfiles[u].role \in {"owner", "member"})
  /\ [][jnProfiles # <<>> =>
          \A u \in UserIds :
            jnProfiles[u] # NoProfile =>
              jnProfiles'[u].organization_id = jnProfiles[u].organization_id]_vars
====
